---- MODULE Spec2Model ----
(***************************************************************************)
(* mdbx-containers: the per-thread transaction lifecycle (Transaction,     *)
(* TransactionTracker, Connection) and the table facade (KeyValueTable)    *)
(* over the libmdbx engine.  The engine is the environment of the library: *)
(* it is modelled by its documented interface (one writer, many readers,   *)
(* snapshot isolation, at most one open transaction per thread).           *)
(***************************************************************************)
EXTENDS Integers, Sequences, FiniteSets, TLC

\* ------------------------------------------------------------------ bounds
MaxRKey == 4
MaxLen == 2
MaxStr == 2
MaxBuf == 8

\* nullptr: an empty MDBX_txn* / a thread without registry entry
NULL == 0

\* two threads, as in the concurrency tests (a writer and a reader)
Threads == {1, 2}
Tables == {"numbers", "strings"}
Values == {"x", "y"}
Keys == {1}
RKeys == 1..MaxRKey
Modes == {"READ_ONLY", "WRITABLE"}
\* the Transaction objects a thread can own: the one Connection::begin keeps in
\* m_transactions, one RAII object obtained from Connection::transaction(), and
\* the txn_guard local to with_transaction
Kinds == {"manual", "raii", "auto"}
ObjIds == Threads \X Kinds
KindNo == [kd \in Kinds |-> CASE kd = "manual" -> 1 [] kd = "raii" -> 2 [] OTHER -> 3]
\* an MDBX_txn* is named after the Transaction object that receives it (every
\* object holds at most one engine handle)
HandleOf(o) == 3 * (o[1] - 1) + KindNo[o[2]]
Handles == {HandleOf(o) : o \in ObjIds}

VARIABLES
    committed,       \* engine: the last committed content of every table
    handles,         \* engine: MDBX_txn objects (state, mode, owner thread, view)
    objs,            \* Transaction objects: alive, m_txn, m_mode, m_started
    m_thread_txns,   \* TransactionTracker::m_thread_txns
    m_transactions,  \* Connection::m_transactions (entry present for the thread)
    m_mdbx_mutex,    \* Connection::m_mdbx_mutex: the thread holding it, or NULL
    pc,              \* per thread: "idle", or blocked inside Connection::begin
    last,            \* the last API call that returned, and how it returned
    m_env,           \* Connection::m_env: the open environment, or NULL
    m_config,        \* Connection::m_config: the stored configuration
    stack            \* per thread: the frame of a table call in progress

vars == <<committed, handles, objs, m_thread_txns, m_transactions, m_mdbx_mutex, pc, last,
          m_env, m_config, stack>>

\* ------------------------------------------------------------ table content
\* A table is a set of <<stored key, value>> pairs with distinct stored keys; a
\* stored key is the MDBX_val the library handed to the engine.
EmptyTable == {}
EmptyDB == [tb \in Tables |-> EmptyTable]

Has(c, u) == \E p \in c : p[1] = u
Get(c, u) == IF Has(c, u) THEN (CHOOSE p \in c : p[1] = u)[2] ELSE "absent"
Put(c, u, v) == {p \in c : p[1] # u} \cup {<<u, v>>}
Del(c, u) == {p \in c : p[1] # u}
StoredKeys(c) == {p[1] : p \in c}

\* KeyT = int: serialize_key hands the engine the 4 native (little-endian,
\* two's complement) bytes of the key; an MDBX_val is the sequence of its bytes.
serialize_key(k) ==
    <<k % 256, (k \div 256) % 256, (k \div 65536) % 256, (k \div 16777216) % 256>>

\* deserialize_value<int>: the length must be sizeof(int); the bytes are copied back
deserialize_key(val) ==
    IF Len(val) # 4 THEN [ok |-> FALSE, key |-> 0]
    ELSE [ok |-> TRUE,
          key |-> val[1] + 256 * val[2] + 65536 * val[3]
                  + 16777216 * (IF val[4] >= 128 THEN val[4] - 256 ELSE val[4])]

\* MDBX_INTEGERKEY: the engine orders keys as native unsigned integers
RECURSIVE KeyLessFrom(_, _, _)
KeyLessFrom(a, b, i) ==
    IF i = 0 THEN FALSE
    ELSE IF a[i] # b[i] THEN a[i] < b[i]
    ELSE KeyLessFrom(a, b, i - 1)

KeyLess(a, b) == KeyLessFrom(a, b, Len(a))

\* ------------------------------------------------------------------ engine
FreeHandle == [st |-> "free", mode |-> "READ_ONLY", owner |-> NULL, view |-> EmptyDB]

\* the thread has a transaction open in the engine
ThreadHasOpen(H, t) == \E h \in Handles : H[h].st = "active" /\ H[h].owner = t
\* the single writer slot is taken by another thread
WriterBusy(H, t) ==
    \E h \in Handles : H[h].st = "active" /\ H[h].mode = "WRITABLE" /\ H[h].owner # t

\* A world is the part of the state the library's methods read and write.
World == [db |-> committed, H |-> handles, obj |-> objs, reg |-> m_thread_txns, env |-> m_env]

\* mdbx_txn_begin: refused without an environment (MDBX_EINVAL) and when the
\* calling thread already has a transaction open
\* (MDBX_BUSY, MDBX_TXN_OVERLAPPING, MDBX_BAD_RSLOT); the caller has made sure the
\* writer slot is free. The new transaction sees the committed content.
mdbx_txn_begin(W, t, mode, h) ==
    IF W.env = NULL \/ ThreadHasOpen(W.H, t) THEN [rc |-> "error", h |-> NULL, W |-> W]
    ELSE [rc |-> "ok", h |-> h,
          W |-> [W EXCEPT !.H[h] = [st |-> "active", mode |-> mode, owner |-> t, view |-> W.db]]]

\* mdbx_txn_renew: a reset read-only handle takes a new snapshot
mdbx_txn_renew(W, t, h) ==
    IF ThreadHasOpen(W.H, t) \/ W.H[h].st # "reset" THEN [rc |-> "error", W |-> W]
    ELSE [rc |-> "ok", W |-> [W EXCEPT !.H[h].st = "active", !.H[h].view = W.db]]

\* mdbx_txn_reset: a read-only handle gives up its snapshot and stays allocated
mdbx_txn_reset(W, h) == [W EXCEPT !.H[h].st = "reset", !.H[h].view = EmptyDB]

\* mdbx_txn_abort: the handle is released, its writes are dropped
mdbx_txn_abort(W, h) == [W EXCEPT !.H[h] = FreeHandle]

\* mdbx_txn_commit: the writes of the handle become the committed content
mdbx_txn_commit(W, h) == [W EXCEPT !.db = W.H[h].view, !.H[h] = FreeHandle]

\* a failing engine call (a non-success return code) changes nothing by itself
mdbx_failed(W) == W

\* mdbx_put (MDBX_UPSERT or MDBX_NOOVERWRITE) through handle h
mdbx_put(W, h, tb, u, v, nooverwrite, fail) ==
    IF fail \/ W.H[h].st # "active" \/ W.H[h].mode # "WRITABLE" THEN [rc |-> "error", W |-> W]
    ELSE IF nooverwrite /\ Has(W.H[h].view[tb], u) THEN [rc |-> "keyexist", W |-> W]
    ELSE [rc |-> "ok", W |-> [W EXCEPT !.H[h].view[tb] = Put(@, u, v)]]

\* mdbx_get through handle h
mdbx_get(W, h, tb, u, fail) ==
    IF fail \/ W.H[h].st # "active" THEN [rc |-> "error", val |-> "absent"]
    ELSE IF ~Has(W.H[h].view[tb], u) THEN [rc |-> "notfound", val |-> "absent"]
    ELSE [rc |-> "ok", val |-> Get(W.H[h].view[tb], u)]

\* mdbx_del through handle h
mdbx_del(W, h, tb, u, fail) ==
    IF fail \/ W.H[h].st # "active" \/ W.H[h].mode # "WRITABLE" THEN [rc |-> "error", W |-> W]
    ELSE IF ~Has(W.H[h].view[tb], u) THEN [rc |-> "notfound", W |-> W]
    ELSE [rc |-> "ok", W |-> [W EXCEPT !.H[h].view[tb] = Del(@, u)]]

\* -------------------------------------------------------- TransactionTracker
\* a registry with one slot for all threads
bind_txn_shared(W, t, h) == [W EXCEPT !.reg = [u \in Threads |-> h]]
bind_txn(W, t, h) == [W EXCEPT !.reg[t] = h]

unbind_txn(W, t) == [W EXCEPT !.reg[t] = NULL]

\* a registry lookup that finds no entry
thread_txn_none(W, t) == NULL

thread_txn(W, t) == W.reg[t]

\* ---------------------------------------------------------------Transaction
DeadObj == [alive |-> FALSE, m_txn |-> NULL, m_mode |-> "READ_ONLY", m_started |-> FALSE]

\* a begin that takes a kept handle as it is, without renewing it
Transaction_begin_no_renew(W, o, t) ==
    LET ob == W.obj[o] IN
    IF ob.m_started THEN [err |-> "none", W |-> W]
    ELSE IF ob.m_txn # NULL /\ ob.m_mode = "READ_ONLY" THEN
        [err |-> "none", W |-> [bind_txn(W, t, ob.m_txn) EXCEPT !.obj[o].m_started = TRUE]]
    ELSE
        LET r == mdbx_txn_begin(W, t, ob.m_mode, HandleOf(o)) IN
        IF r.rc # "ok" THEN [err |-> "engine", W |-> W]
        ELSE [err |-> "none",
              W |-> [bind_txn(r.W, t, r.h) EXCEPT !.obj[o].m_txn = r.h, !.obj[o].m_started = TRUE]]

\* Transaction::begin, called by thread t on object o
Transaction_begin(W, o, t) ==
    LET ob == W.obj[o] IN
    IF ob.m_started THEN [err |-> "none", W |-> W]
    ELSE IF ob.m_txn # NULL /\ ob.m_mode = "READ_ONLY" THEN
        LET r == mdbx_txn_renew(W, t, ob.m_txn) IN
        IF r.rc # "ok" THEN [err |-> "engine", W |-> W]
        ELSE [err |-> "none",
              W |-> [bind_txn(r.W, t, ob.m_txn) EXCEPT !.obj[o].m_started = TRUE]]
    ELSE
        LET r == mdbx_txn_begin(W, t, ob.m_mode, HandleOf(o)) IN
        IF r.rc # "ok" THEN [err |-> "engine", W |-> W]
        ELSE [err |-> "none",
              W |-> [bind_txn(r.W, t, r.h) EXCEPT !.obj[o].m_txn = r.h, !.obj[o].m_started = TRUE]]

\* Transaction::Transaction: a constructor that throws leaves no object behind
Transaction_ctor(W, o, t, mode) ==
    LET W0 == [W EXCEPT !.obj[o] = [alive |-> TRUE, m_txn |-> NULL, m_mode |-> mode, m_started |-> FALSE]]
        r == Transaction_begin(W0, o, t)
    IN IF r.err # "none" THEN [err |-> r.err, W |-> W] ELSE r

\* a catch block that aborts the handle and forgets the registry entry
commit_catch_keeps_entry(W, o, t) ==
    LET ob == W.obj[o] IN
    IF ob.m_txn # NULL
    THEN [mdbx_txn_abort(W, ob.m_txn) EXCEPT !.obj[o].m_txn = NULL, !.obj[o].m_started = FALSE]
    ELSE [W EXCEPT !.obj[o].m_started = FALSE]

\* catch (...) of Transaction::commit
commit_catch(W, o, t) ==
    LET ob == W.obj[o] IN
    IF ob.m_txn # NULL
    THEN [unbind_txn(mdbx_txn_abort(W, ob.m_txn), t) EXCEPT !.obj[o].m_txn = NULL, !.obj[o].m_started = FALSE]
    ELSE [W EXCEPT !.obj[o].m_started = FALSE]

\* a commit that releases a WRITABLE handle without applying its writes
Transaction_commit_drops(W, o, t, fail) ==
    LET ob == W.obj[o] IN
    IF ob.m_txn = NULL \/ ~ob.m_started THEN [err |-> "usage", W |-> W]
    ELSE IF fail THEN [err |-> "engine", W |-> commit_catch(mdbx_failed(W), o, t)]
    ELSE IF ob.m_mode = "READ_ONLY" THEN
        [err |-> "none", W |-> [mdbx_txn_reset(W, ob.m_txn) EXCEPT !.obj[o].m_started = FALSE]]
    ELSE
        [err |-> "none",
         W |-> [unbind_txn(mdbx_txn_abort(W, ob.m_txn), t) EXCEPT !.obj[o].m_txn = NULL, !.obj[o].m_started = FALSE]]

\* Transaction::commit; fail: the engine call (mdbx_txn_reset / mdbx_txn_commit) fails
Transaction_commit(W, o, t, fail) ==
    LET ob == W.obj[o] IN
    IF ob.m_txn = NULL \/ ~ob.m_started THEN [err |-> "usage", W |-> W]
    ELSE IF fail THEN [err |-> "engine", W |-> commit_catch(mdbx_failed(W), o, t)]
    ELSE IF ob.m_mode = "READ_ONLY" THEN
        [err |-> "none", W |-> [mdbx_txn_reset(W, ob.m_txn) EXCEPT !.obj[o].m_started = FALSE]]
    ELSE
        [err |-> "none",
         W |-> [unbind_txn(mdbx_txn_commit(W, ob.m_txn), t) EXCEPT !.obj[o].m_txn = NULL, !.obj[o].m_started = FALSE]]

\* catch (...) of Transaction::rollback
rollback_catch(W, o, t) ==
    LET ob == W.obj[o] IN
    IF ob.m_txn # NULL
    THEN [unbind_txn(mdbx_txn_abort(W, ob.m_txn), t) EXCEPT !.obj[o].m_txn = NULL, !.obj[o].m_started = FALSE]
    ELSE [W EXCEPT !.obj[o].m_started = FALSE]

\* a rollback that only looks at the handle, not at the started flag
Transaction_rollback_unguarded(W, o, t, fail) ==
    LET ob == W.obj[o] IN
    IF ob.m_txn = NULL THEN [err |-> "usage", W |-> W]
    ELSE IF fail THEN [err |-> "engine", W |-> rollback_catch(mdbx_failed(W), o, t)]
    ELSE IF ob.m_mode = "READ_ONLY" THEN
        [err |-> "none", W |-> [mdbx_txn_reset(W, ob.m_txn) EXCEPT !.obj[o].m_started = FALSE]]
    ELSE
        [err |-> "none",
         W |-> [unbind_txn(mdbx_txn_abort(W, ob.m_txn), t) EXCEPT !.obj[o].m_txn = NULL, !.obj[o].m_started = FALSE]]

\* Transaction::rollback; fail: the engine call (mdbx_txn_reset / mdbx_txn_abort) fails
Transaction_rollback(W, o, t, fail) ==
    LET ob == W.obj[o] IN
    IF ob.m_txn = NULL \/ ~ob.m_started THEN [err |-> "usage", W |-> W]
    ELSE IF fail THEN [err |-> "engine", W |-> rollback_catch(mdbx_failed(W), o, t)]
    ELSE IF ob.m_mode = "READ_ONLY" THEN
        [err |-> "none", W |-> [mdbx_txn_reset(W, ob.m_txn) EXCEPT !.obj[o].m_started = FALSE]]
    ELSE
        [err |-> "none",
         W |-> [unbind_txn(mdbx_txn_abort(W, ob.m_txn), t) EXCEPT !.obj[o].m_txn = NULL, !.obj[o].m_started = FALSE]]

\* a destructor that commits the open handle instead of aborting it
Transaction_dtor_commits(W, o, t) ==
    LET W1 == unbind_txn(W, t)
        ob == W.obj[o]
    IN IF ob.m_txn = NULL THEN [W1 EXCEPT !.obj[o] = DeadObj]
       ELSE IF W1.H[ob.m_txn].st = "active" /\ ob.m_mode = "WRITABLE"
            THEN [mdbx_txn_commit(W1, ob.m_txn) EXCEPT !.obj[o] = DeadObj]
            ELSE [mdbx_txn_abort(W1, ob.m_txn) EXCEPT !.obj[o] = DeadObj]

\* Transaction::~Transaction, run by thread t
Transaction_dtor(W, o, t) ==
    LET W1 == unbind_txn(W, t)
        ob == W.obj[o]
    IN IF ob.m_txn = NULL THEN [W1 EXCEPT !.obj[o] = DeadObj]
       ELSE [mdbx_txn_abort(W1, ob.m_txn) EXCEPT !.obj[o] = DeadObj]

\* ------------------------------------------------------------ KeyValueTable
\* KeyValueTable::db_insert_or_assign
db_insert_or_assign(W, h, tb, k, v, fail) ==
    LET r == mdbx_put(W, h, tb, serialize_key(k), v, FALSE, fail) IN
    IF r.rc # "ok" THEN [err |-> "engine", W |-> r.W, val |-> "absent", hit |-> TRUE]
    ELSE [err |-> "none", W |-> r.W, val |-> v, hit |-> FALSE]

\* an insert that writes with MDBX_UPSERT
db_insert_upsert(W, h, tb, k, v, fail) ==
    LET r == mdbx_put(W, h, tb, serialize_key(k), v, FALSE, fail) IN
    IF r.rc = "ok" THEN [err |-> "none", W |-> r.W, val |-> "true", hit |-> FALSE]
    ELSE [err |-> "engine", W |-> r.W, val |-> "absent", hit |-> TRUE]

\* KeyValueTable::db_insert_if_absent: mdbx_put with MDBX_NOOVERWRITE; the
\* boolean it returns is kept in val
db_insert_if_absent(W, h, tb, k, v, fail) ==
    LET r == mdbx_put(W, h, tb, serialize_key(k), v, TRUE, fail) IN
    IF r.rc = "ok" THEN [err |-> "none", W |-> r.W, val |-> "true", hit |-> FALSE]
    ELSE IF r.rc = "keyexist" THEN [err |-> "none", W |-> r.W, val |-> "false", hit |-> FALSE]
    ELSE [err |-> "engine", W |-> r.W, val |-> "absent", hit |-> TRUE]

\* KeyValueTable::find over KeyValueTable::db_get
db_find(W, h, tb, k, fail) ==
    LET r == mdbx_get(W, h, tb, serialize_key(k), fail) IN
    IF r.rc = "notfound" THEN [err |-> "none", W |-> W, val |-> "absent", hit |-> FALSE]
    ELSE IF r.rc # "ok" THEN [err |-> "engine", W |-> W, val |-> "absent", hit |-> TRUE]
    ELSE [err |-> "none", W |-> W, val |-> r.val, hit |-> FALSE]

\* a lookup that hands back a default value for a key that is not stored
db_at_default(W, h, tb, k, fail) == db_find(W, h, tb, k, fail)

\* the lambda of KeyValueTable::at: db_get, and std::out_of_range when the key
\* is not stored
db_at(W, h, tb, k, fail) ==
    LET r == mdbx_get(W, h, tb, serialize_key(k), fail) IN
    IF r.rc = "notfound" THEN [err |-> "out_of_range", W |-> W, val |-> "absent", hit |-> FALSE]
    ELSE IF r.rc # "ok" THEN [err |-> "engine", W |-> W, val |-> "absent", hit |-> TRUE]
    ELSE [err |-> "none", W |-> W, val |-> r.val, hit |-> FALSE]

\* KeyValueTable::db_erase
db_erase(W, h, tb, k, fail) ==
    LET r == mdbx_del(W, h, tb, serialize_key(k), fail) IN
    IF r.rc = "ok" THEN [err |-> "none", W |-> r.W, val |-> "erased", hit |-> FALSE]
    ELSE IF r.rc = "notfound" THEN [err |-> "none", W |-> r.W, val |-> "absent", hit |-> FALSE]
    ELSE [err |-> "engine", W |-> r.W, val |-> "absent", hit |-> TRUE]

\* the keys of a container (a sequence of <<key, value>> pairs)
KeysOf(C) == {C[i][1] : i \in 1..Len(C)}

\* db_reconcile, step 1: upsert every pair of the container, in order
RECURSIVE reconcile_upsert(_, _, _, _, _, _)
reconcile_upsert(W, h, tb, C, i, fault) ==
    IF i > Len(C) THEN [err |-> "none", W |-> W]
    ELSE LET r == mdbx_put(W, h, tb, serialize_key(C[i][1]), C[i][2], FALSE, fault = <<"put", i>>) IN
         IF r.rc # "ok" THEN [err |-> "engine", W |-> r.W]
         ELSE reconcile_upsert(r.W, h, tb, C, i + 1, fault)

\* mdbx_cursor_get(MDBX_NEXT): the stored key after position pos in the engine's
\* order (pos = <<>>: the cursor is new), or MDBX_NOTFOUND
cursor_next(c, pos) ==
    LET after == {x \in StoredKeys(c) : pos = <<>> \/ KeyLess(pos, x)} IN
    IF after = {} THEN [rc |-> "notfound", key |-> <<>>]
    ELSE [rc |-> "ok", key |-> CHOOSE x \in after : \A y \in after : x = y \/ KeyLess(x, y)]

\* db_reconcile, step 2: the cursor walk that deletes the keys not in new_keys;
\* n counts the cursor steps, d the deletions (to place an engine failure);
\* hit: an engine call returned a failure code
RECURSIVE reconcile_scan(_, _, _, _, _, _, _, _)
reconcile_scan(W, h, tb, new_keys, pos, n, d, fault) ==
    LET nx == cursor_next(W.H[h].view[tb], pos) IN
    IF nx.rc # "ok" \/ fault = <<"step", n>> THEN [err |-> "none", W |-> W, hit |-> fault = <<"step", n>>]
    ELSE LET key == deserialize_key(nx.key) IN
         IF ~key.ok THEN [err |-> "format", W |-> W, hit |-> FALSE]
         ELSE IF key.key \in new_keys THEN reconcile_scan(W, h, tb, new_keys, nx.key, n + 1, d, fault)
         ELSE IF fault = <<"del", d>> \/ W.H[h].mode # "WRITABLE"
              THEN [err |-> "engine", W |-> W, hit |-> TRUE]
         ELSE reconcile_scan([W EXCEPT !.H[h].view[tb] = Del(@, nx.key)], h, tb, new_keys, nx.key, n + 1, d + 1, fault)

\* KeyValueTable::db_reconcile (container of pairs)
db_reconcile(W, h, tb, C, fault) ==
    LET up == reconcile_upsert(W, h, tb, C, 1, fault) IN
    IF up.err # "none" THEN [err |-> up.err, W |-> up.W, val |-> "absent", hit |-> TRUE]
    ELSE IF fault = <<"open", 1>> \/ up.W.H[h].st # "active"
         THEN [err |-> "engine", W |-> up.W, val |-> "absent", hit |-> TRUE]
    ELSE LET sc == reconcile_scan(up.W, h, tb, KeysOf(C), <<>>, 1, 1, fault) IN
         [err |-> sc.err, W |-> sc.W, val |-> "absent", hit |-> sc.hit]

\* KeyValueTable::db_load into an empty container: the pairs read by the cursor
\* walk, in the engine's key order; n counts the cursor steps
RECURSIVE load_scan(_, _, _, _, _)
load_scan(c, pos, n, out, fault) ==
    LET nx == cursor_next(c, pos) IN
    IF nx.rc # "ok" \/ fault = <<"step", n>> THEN [err |-> "none", val |-> out, hit |-> fault = <<"step", n>>]
    ELSE LET key == deserialize_key(nx.key) IN
         IF ~key.ok THEN [err |-> "format", val |-> <<>>, hit |-> FALSE]
         ELSE load_scan(c, nx.key, n + 1, Append(out, <<key.key, Get(c, nx.key)>>), fault)

db_load(W, h, tb, fault) ==
    IF fault = <<"open", 1>> \/ W.H[h].st # "active"
    THEN [err |-> "engine", W |-> W, val |-> <<>>, hit |-> TRUE]
    ELSE LET ld == load_scan(W.H[h].view[tb], <<>>, 1, <<>>, fault) IN
         [err |-> ld.err, W |-> W, val |-> ld.val, hit |-> ld.hit]

\* KeyValueTable::db_load (std::vector of pairs): the pairs the cursor walk
\* reads are appended to out_vector
db_load_vector(W, h, tb, out, fault) ==
    IF fault = <<"open", 1>> \/ W.H[h].st # "active"
    THEN [err |-> "engine", W |-> W, val |-> out, hit |-> TRUE]
    ELSE LET ld == load_scan(W.H[h].view[tb], <<>>, 1, out, fault) IN
         [err |-> ld.err, W |-> W, val |-> ld.val, hit |-> ld.hit]

\* the lambda a public table method hands to with_transaction, with what it
\* captures: the cell, the value or the container, and where the engine fails
Action(name, tb, k, v, C, fault) ==
    [name |-> name, tb |-> tb, k |-> k, v |-> v, C |-> C, fault |-> fault]

\* action(txn): the lambda run on handle h
Op(W, h, a) ==
    CASE a.name = "insert_or_assign" -> db_insert_or_assign(W, h, a.tb, a.k, a.v, a.fault[1] = "put")
      [] a.name = "find" -> db_find(W, h, a.tb, a.k, a.fault[1] = "get")
      [] a.name = "erase" -> db_erase(W, h, a.tb, a.k, a.fault[1] = "del")
      [] a.name = "retrieve_all" -> db_load(W, h, a.tb, a.fault)
      [] a.name = "load" -> db_load_vector(W, h, a.tb, a.C, a.fault)
      [] a.name = "at" -> db_at(W, h, a.tb, a.k, a.fault[1] = "get")
      [] a.name = "insert" -> db_insert_if_absent(W, h, a.tb, a.k, a.v, a.fault[1] = "put")
      [] OTHER -> db_reconcile(W, h, a.tb, a.C, a.fault)

\* a branch that runs the action on the given handle and swallows what it throws
Direct_quiet(r, via, h) ==
    [err |-> "none", W |-> r.W, val |-> r.val, via |-> via, h |-> h, hit |-> r.hit]

\* with_transaction, first two branches: the action ran on the explicit or on
\* the thread-bound handle h with outcome r; nothing is begun or committed
Direct(r, via, h) ==
    [err |-> r.err, W |-> r.W, val |-> r.val, via |-> via, h |-> h, hit |-> r.hit]

\* with_transaction, scoped branch after txn_guard.commit() gave cm: the guard
\* is destroyed on return; a failed commit is followed by rollback and rethrow
ScopedCommit(cm, r, h, o, t) ==
    IF cm.err = "none"
    THEN [err |-> "none", W |-> Transaction_dtor(cm.W, o, t), val |-> r.val,
          via |-> "scoped", h |-> h, hit |-> r.hit]
    ELSE [err |-> cm.err,
          W |-> Transaction_dtor(Transaction_rollback(cm.W, o, t, FALSE).W, o, t),
          val |-> "absent", via |-> "scoped", h |-> h, hit |-> TRUE]

\* a scoped branch that commits whatever the action did, also when it threw
ScopedRun_commits_always(r, h, o, t, cfail) ==
    IF r.err = "none" THEN ScopedCommit(Transaction_commit(r.W, o, t, cfail), r, h, o, t)
    ELSE [err |-> r.err,
          W |-> Transaction_dtor(Transaction_commit(r.W, o, t, FALSE).W, o, t),
          val |-> "absent", via |-> "scoped", h |-> h, hit |-> r.hit]

\* with_transaction, scoped branch after action(txn_guard.handle()) gave r:
\* commit, or catch (...) with rollback and rethrow
ScopedRun(r, h, o, t, cfail) ==
    IF r.err = "none" THEN ScopedCommit(Transaction_commit(r.W, o, t, cfail), r, h, o, t)
    ELSE [err |-> r.err,
          W |-> Transaction_dtor(Transaction_rollback(r.W, o, t, FALSE).W, o, t),
          val |-> "absent", via |-> "scoped", h |-> h, hit |-> r.hit]

\* with_transaction, scoped branch: c is the outcome of constructing txn_guard
Scoped(W, c, o, t, a, cfail) ==
    IF c.err # "none"
    THEN [err |-> c.err, W |-> W, val |-> "absent", via |-> "scoped", h |-> NULL, hit |-> TRUE]
    ELSE ScopedRun(Op(c.W, c.W.obj[o].m_txn, a), c.W.obj[o].m_txn, o, t, cfail)

\* KeyValueTable::with_transaction. cfail: the engine fails the commit of the
\* scoped transaction. hit: an engine call of the action, of the scoped begin
\* or of the scoped commit returned a failure code.
with_transaction(W, t, mode, txn, a, cfail) ==
    IF txn # NULL THEN Direct(Op(W, txn, a), "explicit", txn)
    ELSE IF thread_txn(W, t) # NULL THEN Direct(Op(W, thread_txn(W, t), a), "thread", thread_txn(W, t))
    ELSE Scoped(W, Transaction_ctor(W, <<t, "auto">>, t, mode), <<t, "auto">>, t, a, cfail)

\* an engine that lets a second write transaction begin at once
WaitsForWriter_never(t, mode) == FALSE

\* a call that would open a scoped WRITABLE transaction waits while another
\* thread holds the writer slot
WaitsForWriter(t, mode) ==
    mode = "WRITABLE" /\ ~ThreadHasOpen(handles, t) /\ WriterBusy(handles, t)

\* the transaction arguments thread t can pass: none, or the handle() of one of
\* its Transaction objects
TxnArgs(t) == {NULL} \cup {objs[<<t, "raii">>].m_txn, objs[<<t, "manual">>].m_txn}

\* ------------------------------------------------------------------ state
NoArg == <<>>
\* op, t: the call and the calling thread; res: "none" or the error it raised.
\* Transaction and Connection calls: was, mode, txn are the state, the mode and
\* the handle of the Transaction object when the call was made.  Table calls:
\* txn is the transaction argument, via the branch with_transaction took, tb and
\* k the cell, val the value returned, arg the container, hit whether an
\* engine call made for it returned a failure code.
NoCall == [op |-> "none", t |-> NULL, res |-> "none", via |-> "none", txn |-> NULL,
           tb |-> "none", k |-> 0, val |-> "absent", arg |-> NoArg,
           was |-> "none", mode |-> "none", hit |-> FALSE]

\* Transaction object o is Active (begun and not yet committed or rolled back)
Active(ob) == ob.alive /\ ob.m_started
ObjState(ob) == IF ~ob.alive THEN "none" ELSE IF ob.m_started THEN "active" ELSE "finalized"

\* the frame of a reconcile in progress: stage is the engine call to make next
\* ("put", "open", "scan", "del", then "commit" of the scoped transaction), h
\* the handle and via the branch with_transaction took, i the index of the next
\* pair, pos the cursor position, hit whether an engine call has failed, pre
\* the committed content when the call began, cursor the MDBX_cursor of the
\* call ("none": not opened, "open", "closed").  NoFrame: no call in progress.
NoFrame == [stage |-> "none", via |-> "none", h |-> NULL, tb |-> "none", C |-> <<>>, i |-> 0,
            pos |-> <<>>, hit |-> FALSE, pre |-> EmptyDB,
            k |-> 0, tmp |-> "absent", create |-> FALSE, cursor |-> "none"]

Call(op, t, res, o, mode) ==
    [NoCall EXCEPT !.op = op, !.t = t, !.res = res, !.txn = objs[o].m_txn,
                   !.was = ObjState(objs[o]), !.mode = mode]
TableCall(op, t, r, txn, tb, k, arg) ==
    [NoCall EXCEPT !.op = op, !.t = t, !.res = r.err, !.via = r.via, !.txn = txn,
                   !.tb = tb, !.k = k, !.val = r.val, !.arg = arg, !.hit = r.hit]

Install(W) ==
    /\ committed' = W.db
    /\ handles' = W.H
    /\ objs' = W.obj
    /\ m_thread_txns' = W.reg

Init ==
    /\ committed = EmptyDB
    /\ handles = [h \in Handles |-> FreeHandle]
    /\ objs = [o \in ObjIds |-> DeadObj]
    /\ m_thread_txns = [t \in Threads |-> NULL]
    /\ m_transactions = [t \in Threads |-> FALSE]
    /\ m_mdbx_mutex = NULL
    /\ pc = [t \in Threads |-> "idle"]
    /\ last = NoCall
    /\ m_env = 1
    /\ m_config = "cfgA"
    /\ stack = [t \in Threads |-> NoFrame]

\* ------------------------------------------------- RAII Transaction objects
\* Connection::transaction(mode): the caller keeps the returned object
ConnTransaction(t, mode) ==
    /\ UNCHANGED <<m_env, m_config, stack>>
    /\ pc[t] = "idle"
    /\ ~objs[<<t, "raii">>].alive
    /\ ~WaitsForWriter(t, mode)
    /\ LET c == Transaction_ctor(World, <<t, "raii">>, t, mode) IN
       /\ Install(c.W)
       /\ last' = Call("transaction", t, c.err, <<t, "raii">>, mode)
    /\ UNCHANGED <<m_transactions, m_mdbx_mutex, pc>>

\* Transaction::begin on the RAII object of thread t
TxnBegin(t) ==
    /\ UNCHANGED <<m_env, m_config, stack>>
    /\ pc[t] = "idle"
    /\ objs[<<t, "raii">>].alive
    /\ ~(~objs[<<t, "raii">>].m_started /\ WaitsForWriter(t, objs[<<t, "raii">>].m_mode))
    /\ LET r == Transaction_begin(World, <<t, "raii">>, t) IN
       /\ Install(r.W)
       /\ last' = Call("txn_begin", t, r.err, <<t, "raii">>, objs[<<t, "raii">>].m_mode)
    /\ UNCHANGED <<m_transactions, m_mdbx_mutex, pc>>

\* Transaction::commit on the RAII object of thread t
TxnCommit(t, fail) ==
    /\ UNCHANGED <<m_env, m_config, stack>>
    /\ pc[t] = "idle"
    /\ objs[<<t, "raii">>].alive
    /\ LET r == Transaction_commit(World, <<t, "raii">>, t, fail) IN
       /\ Install(r.W)
       /\ last' = Call("txn_commit", t, r.err, <<t, "raii">>, objs[<<t, "raii">>].m_mode)
    /\ UNCHANGED <<m_transactions, m_mdbx_mutex, pc>>

\* Transaction::rollback on the RAII object of thread t
TxnRollback(t, fail) ==
    /\ UNCHANGED <<m_env, m_config, stack>>
    /\ pc[t] = "idle"
    /\ objs[<<t, "raii">>].alive
    /\ LET r == Transaction_rollback(World, <<t, "raii">>, t, fail) IN
       /\ Install(r.W)
       /\ last' = Call("txn_rollback", t, r.err, <<t, "raii">>, objs[<<t, "raii">>].m_mode)
    /\ UNCHANGED <<m_transactions, m_mdbx_mutex, pc>>

\* the RAII object of thread t goes out of scope
TxnDestroy(t) ==
    /\ UNCHANGED <<m_env, m_config, stack>>
    /\ pc[t] = "idle"
    /\ objs[<<t, "raii">>].alive
    /\ Install(Transaction_dtor(World, <<t, "raii">>, t))
    /\ last' = Call("txn_destroy", t, "none", <<t, "raii">>, objs[<<t, "raii">>].m_mode)
    /\ UNCHANGED <<m_transactions, m_mdbx_mutex, pc>>

\* -------------------------------------------------------------- Connection
\* Connection::begin after the duplicate check: make_shared<Transaction>, then
\* m_transactions[tid] = txn; the mutex is released on return
Connection_begin_body(t, mode) ==
    LET c == Transaction_ctor(World, <<t, "manual">>, t, mode) IN
    /\ Install(c.W)
    /\ m_transactions' = [m_transactions EXCEPT ![t] = (c.err = "none")]
    /\ last' = Call("begin", t, c.err, <<t, "manual">>, mode)
    /\ m_mdbx_mutex' = NULL
    /\ pc' = [pc EXCEPT ![t] = "idle"]

\* Connection::begin without the check for an existing manual transaction
ConnBegin_unchecked(t, mode) ==
    /\ UNCHANGED <<m_env, m_config, stack>>
    /\ pc[t] = "idle"
    /\ m_mdbx_mutex = NULL
    /\ IF WaitsForWriter(t, mode) THEN
           /\ m_mdbx_mutex' = t
           /\ pc' = [pc EXCEPT ![t] = "begin_wait"]
           /\ last' = Call("begin_wait", t, "none", <<t, "manual">>, mode)
           /\ UNCHANGED <<committed, handles, objs, m_thread_txns, m_transactions>>
       ELSE Connection_begin_body(t, mode)

\* Connection::begin(mode). With the writer slot taken by another thread,
\* mdbx_txn_begin waits inside the call, which holds m_mdbx_mutex.
ConnBegin(t, mode) ==
    /\ UNCHANGED <<m_env, m_config, stack>>
    /\ pc[t] = "idle"
    /\ m_mdbx_mutex = NULL
    /\ IF m_transactions[t] THEN
           /\ last' = Call("begin", t, "usage", <<t, "manual">>, mode)
           /\ UNCHANGED <<committed, handles, objs, m_thread_txns, m_transactions, m_mdbx_mutex, pc>>
       ELSE IF WaitsForWriter(t, mode) THEN
           /\ m_mdbx_mutex' = t
           /\ pc' = [pc EXCEPT ![t] = "begin_wait"]
           /\ last' = Call("begin_wait", t, "none", <<t, "manual">>, mode)
           /\ UNCHANGED <<committed, handles, objs, m_thread_txns, m_transactions>>
       ELSE Connection_begin_body(t, mode)

\* the writer slot is released: the waiting Connection::begin goes on
ConnBeginResume(t) ==
    /\ UNCHANGED <<m_env, m_config, stack>>
    /\ pc[t] = "begin_wait"
    /\ ~WriterBusy(handles, t)
    /\ Connection_begin_body(t, "WRITABLE")

\* a commit that takes any entry of m_transactions when the calling thread has
\* none
ConnCommit_any(t, fail) ==
    /\ UNCHANGED <<m_env, m_config, stack>>
    /\ pc[t] = "idle"
    /\ m_mdbx_mutex = NULL
    /\ LET u == IF m_transactions[t] \/ \A x \in Threads : ~m_transactions[x] THEN t
                ELSE CHOOSE x \in Threads : m_transactions[x]
       IN IF ~m_transactions[u] THEN
              /\ last' = Call("commit", t, "usage", <<t, "manual">>, objs[<<t, "manual">>].m_mode)
              /\ UNCHANGED <<committed, handles, objs, m_thread_txns, m_transactions>>
          ELSE LET r == Transaction_commit(World, <<u, "manual">>, t, fail) IN
               IF r.err # "none" THEN
                   /\ Install(r.W)
                   /\ last' = Call("commit", t, r.err, <<t, "manual">>, objs[<<t, "manual">>].m_mode)
                   /\ UNCHANGED m_transactions
               ELSE
                   /\ Install(Transaction_dtor(r.W, <<u, "manual">>, t))
                   /\ m_transactions' = [m_transactions EXCEPT ![u] = FALSE]
                   /\ last' = Call("commit", t, "none", <<t, "manual">>, objs[<<t, "manual">>].m_mode)
    /\ UNCHANGED <<m_mdbx_mutex, pc>>

\* Connection::commit
ConnCommit(t, fail) ==
    /\ UNCHANGED <<m_env, m_config, stack>>
    /\ pc[t] = "idle"
    /\ m_mdbx_mutex = NULL
    /\ IF ~m_transactions[t] THEN
           /\ last' = Call("commit", t, "usage", <<t, "manual">>, objs[<<t, "manual">>].m_mode)
           /\ UNCHANGED <<committed, handles, objs, m_thread_txns, m_transactions>>
       ELSE LET r == Transaction_commit(World, <<t, "manual">>, t, fail) IN
            IF r.err # "none" THEN
                /\ Install(r.W)
                /\ last' = Call("commit", t, r.err, <<t, "manual">>, objs[<<t, "manual">>].m_mode)
                /\ UNCHANGED m_transactions
            ELSE
                /\ Install(Transaction_dtor(r.W, <<t, "manual">>, t))
                /\ m_transactions' = [m_transactions EXCEPT ![t] = FALSE]
                /\ last' = Call("commit", t, "none", <<t, "manual">>, objs[<<t, "manual">>].m_mode)
    /\ UNCHANGED <<m_mdbx_mutex, pc>>

\* Connection::rollback
ConnRollback(t, fail) ==
    /\ UNCHANGED <<m_env, m_config, stack>>
    /\ pc[t] = "idle"
    /\ m_mdbx_mutex = NULL
    /\ IF ~m_transactions[t] THEN
           /\ last' = Call("rollback", t, "usage", <<t, "manual">>, objs[<<t, "manual">>].m_mode)
           /\ UNCHANGED <<committed, handles, objs, m_thread_txns, m_transactions>>
       ELSE LET r == Transaction_rollback(World, <<t, "manual">>, t, fail) IN
            IF r.err # "none" THEN
                /\ Install(r.W)
                /\ last' = Call("rollback", t, r.err, <<t, "manual">>, objs[<<t, "manual">>].m_mode)
                /\ UNCHANGED m_transactions
            ELSE
                /\ Install(Transaction_dtor(r.W, <<t, "manual">>, t))
                /\ m_transactions' = [m_transactions EXCEPT ![t] = FALSE]
                /\ last' = Call("rollback", t, "none", <<t, "manual">>, objs[<<t, "manual">>].m_mode)
    /\ UNCHANGED <<m_mdbx_mutex, pc>>

\* ------------------------------------------- Connection: connect, disconnect
\* the values m_env takes while an environment is open (the pointer that
\* mdbx_env_create returns), and the configurations a caller passes
EnvHandles == {1, 2}
Configs == {"cfgA", "cfgB"}
\* no Config: m_config is empty, or connect() is called without an argument
NoConfig == "none"

\* mdbx_env_close: MDBX_BUSY, and nothing released, while another thread runs
\* the write transaction; otherwise the environment is destroyed together with
\* the transactions still allocated in it, whose handles are left dangling
mdbx_env_close(W, t) ==
    IF WriterBusy(W.H, t) THEN [rc |-> "busy", W |-> W]
    ELSE [rc |-> "ok",
          W |-> [W EXCEPT !.H = [h \in Handles |->
                                   IF W.H[h].st = "free" THEN W.H[h]
                                   ELSE [W.H[h] EXCEPT !.st = "stale"]]]]

\* Connection::cleanup(use_throw)
Connection_cleanup(W, t, use_throw) ==
    IF W.env = NULL THEN [err |-> "none", W |-> W]
    ELSE LET r == mdbx_env_close(W, t) IN
         IF r.rc # "ok" /\ use_throw THEN [err |-> "engine", W |-> r.W]
         ELSE [err |-> "none", W |-> [r.W EXCEPT !.env = NULL]]

\* Connection::initialize: db_init opens the environment as handle e, or fails
\* and leaves none open
Connection_initialize(W, e, fail) ==
    IF fail THEN [err |-> "engine", W |-> W]
    ELSE [err |-> "none", W |-> [W EXCEPT !.env = e]]

\* a connect / disconnect call and its outcome: val is the Config passed, was
\* tells whether the environment was open when the call was made
ConnCall(op, t, res, cfg) ==
    [NoCall EXCEPT !.op = op, !.t = t, !.res = res, !.val = cfg,
                   !.was = IF m_env # NULL THEN "open" ELSE "closed"]

\* a connect that stores the configuration before it looks at m_env
Connect_overwrites(t, cfg, e, fail) ==
    /\ pc[t] = "idle"
    /\ m_mdbx_mutex = NULL
    /\ m_config' = IF cfg = NoConfig THEN m_config ELSE cfg
    /\ IF m_env # NULL THEN
           /\ last' = ConnCall("connect", t, "none", cfg)
           /\ UNCHANGED <<m_env, committed, handles, objs, m_thread_txns>>
       ELSE IF cfg = NoConfig /\ m_config = NoConfig THEN
           /\ last' = ConnCall("connect", t, "usage", cfg)
           /\ UNCHANGED <<m_env, committed, handles, objs, m_thread_txns>>
       ELSE LET r == Connection_initialize(World, e, fail) IN
           /\ Install(r.W)
           /\ m_env' = r.W.env
           /\ last' = ConnCall("connect", t, r.err, cfg)
    /\ UNCHANGED <<m_transactions, m_mdbx_mutex, pc, stack>>

\* Connection::connect() (cfg = NoConfig) and Connection::connect(config)
Connect(t, cfg, e, fail) ==
    /\ pc[t] = "idle"
    /\ m_mdbx_mutex = NULL
    /\ IF m_env # NULL THEN
           /\ last' = ConnCall("connect", t, "none", cfg)
           /\ UNCHANGED <<m_env, m_config, committed, handles, objs, m_thread_txns>>
       ELSE IF cfg = NoConfig /\ m_config = NoConfig THEN
           /\ last' = ConnCall("connect", t, "usage", cfg)
           /\ UNCHANGED <<m_env, m_config, committed, handles, objs, m_thread_txns>>
       ELSE LET r == Connection_initialize(World, e, fail) IN
           /\ m_config' = IF cfg = NoConfig THEN m_config ELSE cfg
           /\ Install(r.W)
           /\ m_env' = r.W.env
           /\ last' = ConnCall("connect", t, r.err, cfg)
    /\ UNCHANGED <<m_transactions, m_mdbx_mutex, pc, stack>>

\* Connection::disconnect
Disconnect(t) ==
    /\ pc[t] = "idle"
    /\ m_mdbx_mutex = NULL
    /\ LET r == Connection_cleanup(World, t, TRUE) IN
       /\ Install(r.W)
       /\ m_env' = r.W.env
       /\ last' = ConnCall("disconnect", t, r.err, NoConfig)
    /\ UNCHANGED <<m_config, m_transactions, m_mdbx_mutex, pc, stack>>

\* the manual transaction of thread t holds a handle of a closed environment
Stale(t) ==
    /\ m_transactions[t]
    /\ objs[<<t, "manual">>].m_txn # NULL
    /\ handles[objs[<<t, "manual">>].m_txn].st = "stale"

\* Connection::commit or rollback on a manual transaction whose handle was
\* released with its environment: the engine call reads freed memory, so what
\* the thread does from here on is undefined
UseAfterClose(t) ==
    /\ pc[t] = "idle"
    /\ m_mdbx_mutex = NULL
    /\ Stale(t)
    /\ pc' = [pc EXCEPT ![t] = "undefined"]
    /\ last' = [NoCall EXCEPT !.op = "use_after_close", !.t = t, !.res = "undefined",
                              !.txn = objs[<<t, "manual">>].m_txn]
    /\ UNCHANGED <<committed, handles, objs, m_thread_txns, m_transactions, m_mdbx_mutex,
                   m_env, m_config, stack>>

\* Connection::current_txn: the manual transaction of the thread, or none
current_txn(t) == IF m_transactions[t] THEN <<t, "manual">> ELSE <<NULL, "none">>

\* ------------------------------------------------------- table operations
\* KeyValueTable::insert_or_assign(key, value, txn)
InsertOrAssign(t, tb, k, v, txn, fail, cfail) ==
    /\ UNCHANGED <<m_env, m_config, stack>>
    /\ pc[t] = "idle"
    /\ cfail => (txn = NULL /\ m_thread_txns[t] = NULL)
    /\ ~(txn = NULL /\ m_thread_txns[t] = NULL /\ WaitsForWriter(t, "WRITABLE"))
    /\ LET r == with_transaction(World, t, "WRITABLE", txn,
                                 Action("insert_or_assign", tb, k, v, NoArg,
                                        IF fail THEN <<"put", 1>> ELSE <<"none", 0>>), cfail) IN
       /\ Install(r.W)
       /\ last' = TableCall("insert_or_assign", t, r, txn, tb, k, NoArg)
    /\ UNCHANGED <<m_transactions, m_mdbx_mutex, pc>>

\* KeyValueTable::find(key, txn)
Find(t, tb, k, txn, fail, cfail) ==
    /\ UNCHANGED <<m_env, m_config, stack>>
    /\ pc[t] = "idle"
    /\ cfail => (txn = NULL /\ m_thread_txns[t] = NULL)
    /\ LET r == with_transaction(World, t, "READ_ONLY", txn,
                                 Action("find", tb, k, "absent", NoArg,
                                        IF fail THEN <<"get", 1>> ELSE <<"none", 0>>), cfail) IN
       /\ Install(r.W)
       /\ last' = TableCall("find", t, r, txn, tb, k, NoArg)
    /\ UNCHANGED <<m_transactions, m_mdbx_mutex, pc>>

\* KeyValueTable::at(key, txn)
At(t, tb, k, txn, fail, cfail) ==
    /\ UNCHANGED <<m_env, m_config, stack>>
    /\ pc[t] = "idle"
    /\ cfail => (txn = NULL /\ m_thread_txns[t] = NULL)
    /\ LET r == with_transaction(World, t, "READ_ONLY", txn,
                                 Action("at", tb, k, "absent", NoArg,
                                        IF fail THEN <<"get", 1>> ELSE <<"none", 0>>), cfail) IN
       /\ Install(r.W)
       /\ last' = TableCall("at", t, r, txn, tb, k, NoArg)
    /\ UNCHANGED <<m_transactions, m_mdbx_mutex, pc>>

\* KeyValueTable::erase(key, txn)
Erase(t, tb, k, txn, fail, cfail) ==
    /\ UNCHANGED <<m_env, m_config, stack>>
    /\ pc[t] = "idle"
    /\ cfail => (txn = NULL /\ m_thread_txns[t] = NULL)
    /\ ~(txn = NULL /\ m_thread_txns[t] = NULL /\ WaitsForWriter(t, "WRITABLE"))
    /\ LET r == with_transaction(World, t, "WRITABLE", txn,
                                 Action("erase", tb, k, "absent", NoArg,
                                        IF fail THEN <<"del", 1>> ELSE <<"none", 0>>), cfail) IN
       /\ Install(r.W)
       /\ last' = TableCall("erase", t, r, txn, tb, k, NoArg)
    /\ UNCHANGED <<m_transactions, m_mdbx_mutex, pc>>

\* KeyValueTable::reconcile(container, txn)
Reconcile(t, tb, C, txn, fault, cfail) ==
    /\ UNCHANGED <<m_env, m_config, stack>>
    /\ pc[t] = "idle"
    /\ cfail => (txn = NULL /\ m_thread_txns[t] = NULL)
    /\ ~(txn = NULL /\ m_thread_txns[t] = NULL /\ WaitsForWriter(t, "WRITABLE"))
    /\ LET r == with_transaction(World, t, "WRITABLE", txn,
                                 Action("reconcile", tb, 0, "absent", C, fault), cfail) IN
       /\ Install(r.W)
       /\ last' = TableCall("reconcile", t, r, txn, tb, 0, C)
    /\ UNCHANGED <<m_transactions, m_mdbx_mutex, pc>>

\* KeyValueTable::insert(key, value, txn); the pair passed is kept in last.arg
Insert(t, tb, k, v, txn, fail, cfail) ==
    /\ UNCHANGED <<m_env, m_config, stack>>
    /\ pc[t] = "idle"
    /\ cfail => (txn = NULL /\ m_thread_txns[t] = NULL)
    /\ ~(txn = NULL /\ m_thread_txns[t] = NULL /\ WaitsForWriter(t, "WRITABLE"))
    /\ LET r == with_transaction(World, t, "WRITABLE", txn,
                                 Action("insert", tb, k, v, NoArg,
                                        IF fail THEN <<"put", 1>> ELSE <<"none", 0>>), cfail) IN
       /\ Install(r.W)
       /\ last' = TableCall("insert", t, r, txn, tb, k, <<<<k, v>>>>)
    /\ UNCHANGED <<m_transactions, m_mdbx_mutex, pc>>

\* KeyValueTable::retrieve_all(txn): the loaded container is kept in last.arg
RetrieveAll(t, tb, txn, fault, cfail) ==
    /\ UNCHANGED <<m_env, m_config, stack>>
    /\ pc[t] = "idle"
    /\ cfail => (txn = NULL /\ m_thread_txns[t] = NULL)
    /\ LET r == with_transaction(World, t, "READ_ONLY", txn,
                                 Action("retrieve_all", tb, 0, "absent", NoArg, fault), cfail) IN
       /\ Install(r.W)
       /\ last' = TableCall("retrieve_all", t, [r EXCEPT !.val = "absent"], txn, tb, 0,
                            IF r.err = "none" THEN r.val ELSE NoArg)
    /\ UNCHANGED <<m_transactions, m_mdbx_mutex, pc>>

\* KeyValueTable::load(std::vector&, txn): last.arg keeps the vector handed in
\* and the vector after a normal return
Load(t, tb, out, txn, fault, cfail) ==
    /\ UNCHANGED <<m_env, m_config, stack>>
    /\ pc[t] = "idle"
    /\ cfail => (txn = NULL /\ m_thread_txns[t] = NULL)
    /\ LET r == with_transaction(World, t, "READ_ONLY", txn,
                                 Action("load", tb, 0, "absent", out, fault), cfail) IN
       /\ Install(r.W)
       /\ last' = TableCall("load", t, [r EXCEPT !.val = "absent"], txn, tb, 0,
                            <<out, IF r.err = "none" THEN r.val ELSE NoArg>>)
    /\ UNCHANGED <<m_transactions, m_mdbx_mutex, pc>>

\* ------------------------------------------- reconcile, engine call by call
\* what a step of db_reconcile gives: the world and the frame after it, and,
\* when it ended the function (done), the error it threw or "none"
StepResult(W, f, err, done) == [W |-> W, f |-> f, err |-> err, done |-> done]

\* an upsert loop in which every pair is committed as it is written
step_put_autocommit(W, f, fail) ==
    LET r == mdbx_put(W, f.h, f.tb, serialize_key(f.C[f.i][1]), f.C[f.i][2], FALSE, fail) IN
    IF r.rc # "ok" THEN StepResult(r.W, [f EXCEPT !.hit = TRUE], "engine", TRUE)
    ELSE StepResult([r.W EXCEPT !.db = r.W.H[f.h].view],
                    [f EXCEPT !.i = @ + 1, !.stage = IF f.i + 1 > Len(f.C) THEN "open" ELSE "put"],
                    "none", FALSE)

\* db_reconcile, the body of the upsert loop: mdbx_put of pair i under check_mdbx
step_put(W, f, fail) ==
    LET r == mdbx_put(W, f.h, f.tb, serialize_key(f.C[f.i][1]), f.C[f.i][2], FALSE, fail) IN
    IF r.rc # "ok" THEN StepResult(r.W, [f EXCEPT !.hit = TRUE], "engine", TRUE)
    ELSE StepResult(r.W,
                    [f EXCEPT !.i = @ + 1, !.stage = IF f.i + 1 > Len(f.C) THEN "open" ELSE "put"],
                    "none", FALSE)

\* db_reconcile: mdbx_cursor_open under check_mdbx
step_open(W, f, fail) ==
    IF fail \/ W.H[f.h].st # "active" THEN StepResult(W, [f EXCEPT !.hit = TRUE], "engine", TRUE)
    ELSE StepResult(W, [f EXCEPT !.stage = "scan", !.pos = <<>>, !.cursor = "open"], "none", FALSE)

\* db_reconcile: the loop condition mdbx_cursor_get(MDBX_NEXT) == MDBX_SUCCESS
\* and the lookup of the key in new_keys; mdbx_cursor_close after the loop
step_scan(W, f, fail) ==
    LET nx == cursor_next(W.H[f.h].view[f.tb], f.pos) IN
    IF nx.rc # "ok" \/ fail
    THEN StepResult(W, [f EXCEPT !.hit = fail, !.cursor = "closed"], "none", TRUE)
    ELSE LET key == deserialize_key(nx.key) IN
         IF ~key.ok THEN StepResult(W, f, "format", TRUE)
         ELSE IF key.key \in KeysOf(f.C) THEN StepResult(W, [f EXCEPT !.pos = nx.key], "none", FALSE)
         ELSE StepResult(W, [f EXCEPT !.pos = nx.key, !.stage = "del"], "none", FALSE)

\* db_reconcile: mdbx_cursor_del(MDBX_CURRENT) under check_mdbx; the engine
\* refuses it in a read-only transaction
step_del(W, f, fail) ==
    IF fail \/ W.H[f.h].mode # "WRITABLE" THEN StepResult(W, [f EXCEPT !.hit = TRUE], "engine", TRUE)
    ELSE StepResult([W EXCEPT !.H[f.h].view[f.tb] = Del(@, f.pos)], [f EXCEPT !.stage = "scan"],
                    "none", FALSE)

\* the next engine call of db_reconcile; fail: the engine fails it
reconcile_step(W, f, fail) ==
    CASE f.stage = "put" -> step_put(W, f, fail)
      [] f.stage = "open" -> step_open(W, f, fail)
      [] f.stage = "scan" -> step_scan(W, f, fail)
      [] OTHER -> step_del(W, f, fail)

\* a call in progress, as the last thing thread t did
InCall(op, t) == [NoCall EXCEPT !.op = op, !.t = t]
\* reconcile returns to its caller; last.was tells what became of its cursor
ReconcileReturn(t, f, err, hit) ==
    /\ stack' = [stack EXCEPT ![t] = NoFrame]
    /\ pc' = [pc EXCEPT ![t] = "idle"]
    /\ last' = [TableCall("reconcile", t,
                          [err |-> err, via |-> f.via, val |-> "absent", hit |-> hit],
                          NULL, f.tb, 0, f.C) EXCEPT !.was = f.cursor]

\* KeyValueTable::reconcile(C) without a transaction argument enters
\* with_transaction: the thread-bound transaction, or a new scoped one
ReconcileStart(t, tb, C) ==
    /\ pc[t] = "idle"
    /\ ~(m_thread_txns[t] = NULL /\ WaitsForWriter(t, "WRITABLE"))
    /\ LET bound == thread_txn(World, t)
           c == IF bound # NULL THEN [err |-> "none", W |-> World]
                ELSE Transaction_ctor(World, <<t, "auto">>, t, "WRITABLE")
           f == [NoFrame EXCEPT !.stage = IF Len(C) = 0 THEN "open" ELSE "put",
                                !.via = IF bound # NULL THEN "thread" ELSE "scoped",
                                !.h = IF bound # NULL THEN bound ELSE c.W.obj[<<t, "auto">>].m_txn,
                                !.tb = tb, !.C = C, !.i = 1, !.pre = committed]
       IN IF c.err # "none" THEN
              /\ last' = TableCall("reconcile", t,
                                   [err |-> c.err, via |-> "scoped", val |-> "absent", hit |-> TRUE],
                                   NULL, tb, 0, C)
              /\ UNCHANGED <<committed, handles, objs, m_thread_txns, pc, stack>>
          ELSE
              /\ Install(c.W)
              /\ stack' = [stack EXCEPT ![t] = f]
              /\ pc' = [pc EXCEPT ![t] = "reconcile"]
              /\ last' = InCall("reconcile_call", t)
    /\ UNCHANGED <<m_transactions, m_mdbx_mutex, m_env, m_config>>

\* the next engine call of the reconcile of thread t; when db_reconcile throws,
\* with_transaction rolls the scoped transaction back and rethrows
ReconcileStep(t, fail) ==
    /\ pc[t] = "reconcile"
    /\ stack[t].stage \in {"put", "open", "scan", "del"}
    /\ LET f == stack[t]
           o == <<t, "auto">>
           r == reconcile_step(World, f, fail)
       IN IF ~r.done THEN
              /\ Install(r.W)
              /\ stack' = [stack EXCEPT ![t] = r.f]
              /\ last' = InCall("reconcile_call", t)
              /\ UNCHANGED pc
          ELSE IF r.err = "none" /\ f.via = "scoped" THEN
              /\ Install(r.W)
              /\ stack' = [stack EXCEPT ![t] = [r.f EXCEPT !.stage = "commit"]]
              /\ last' = InCall("reconcile_call", t)
              /\ UNCHANGED pc
          ELSE IF f.via = "scoped" THEN
              /\ Install(Transaction_dtor(Transaction_rollback(r.W, o, t, FALSE).W, o, t))
              /\ ReconcileReturn(t, r.f, r.err, r.f.hit)
          ELSE
              /\ Install(r.W)
              /\ ReconcileReturn(t, r.f, r.err, r.f.hit)
    /\ UNCHANGED <<m_transactions, m_mdbx_mutex, m_env, m_config>>

\* with_transaction after the action returned: txn_guard.commit(), and on a
\* failure rollback and rethrow; the scoped Transaction is destroyed on return
ReconcileFinish(t, cfail) ==
    /\ pc[t] = "reconcile"
    /\ stack[t].stage = "commit"
    /\ LET f == stack[t]
           o == <<t, "auto">>
           cm == Transaction_commit(World, o, t, cfail)
       IN IF cm.err = "none" THEN
              /\ Install(Transaction_dtor(cm.W, o, t))
              /\ ReconcileReturn(t, f, "none", f.hit)
          ELSE
              /\ Install(Transaction_dtor(Transaction_rollback(cm.W, o, t, FALSE).W, o, t))
              /\ ReconcileReturn(t, f, cm.err, TRUE)
    /\ UNCHANGED <<m_transactions, m_mdbx_mutex, m_env, m_config>>

\* ------------------------------------ AnyValueTable::update, call by call
\* the functor handed to update<T>: it counts the value up; T is a two-bit
\* counter, "c0" is T{}
fn(v) ==
    CASE v = "c0" -> "c1" [] v = "c1" -> "c2" [] v = "c2" -> "c3" [] OTHER -> "c0"

\* the lambda of update, first half: T tmp{}; get_typed(key, tmp, t); a
\* missing key throws std::out_of_range unless create_if_missing
update_get(W, f, fail) ==
    LET r == mdbx_get(W, f.h, f.tb, serialize_key(f.k), fail) IN
    IF r.rc = "error" THEN StepResult(W, [f EXCEPT !.hit = TRUE], "engine", TRUE)
    ELSE IF r.rc = "notfound" /\ ~f.create THEN StepResult(W, f, "out_of_range", TRUE)
    ELSE StepResult(W, [f EXCEPT !.tmp = IF r.rc = "notfound" THEN "c0" ELSE r.val,
                                 !.stage = "put"], "none", FALSE)

\* the lambda of update, second half: fn(tmp); put_typed(key, tmp, true, t)
update_put(W, f, fail) ==
    LET r == mdbx_put(W, f.h, f.tb, serialize_key(f.k), fn(f.tmp), FALSE, fail) IN
    IF r.rc # "ok" THEN StepResult(r.W, [f EXCEPT !.hit = TRUE], "engine", TRUE)
    ELSE StepResult(r.W, [f EXCEPT !.tmp = fn(f.tmp)], "none", TRUE)

\* update returns to its caller; last.val is the value it wrote
UpdateReturn(t, f, err, hit) ==
    /\ stack' = [stack EXCEPT ![t] = NoFrame]
    /\ pc' = [pc EXCEPT ![t] = "idle"]
    /\ last' = TableCall("update", t,
                         [err |-> err, via |-> f.via, hit |-> hit,
                          val |-> IF err = "none" THEN f.tmp ELSE "absent"],
                         NULL, f.tb, f.k, NoArg)

\* AnyValueTable::update<T>(key, fn, create_if_missing) without a transaction
\* argument enters with_transaction: the thread-bound transaction, or a new
\* scoped WRITABLE one
UpdateStart(t, tb, k, create) ==
    /\ pc[t] = "idle"
    /\ ~(m_thread_txns[t] = NULL /\ WaitsForWriter(t, "WRITABLE"))
    /\ LET bound == thread_txn(World, t)
           c == IF bound # NULL THEN [err |-> "none", W |-> World]
                ELSE Transaction_ctor(World, <<t, "auto">>, t, "WRITABLE")
           f == [NoFrame EXCEPT !.stage = "get",
                                !.via = IF bound # NULL THEN "thread" ELSE "scoped",
                                !.h = IF bound # NULL THEN bound ELSE c.W.obj[<<t, "auto">>].m_txn,
                                !.tb = tb, !.k = k, !.create = create, !.pre = committed]
       IN IF c.err # "none" THEN
              /\ last' = TableCall("update", t,
                                   [err |-> c.err, via |-> "scoped", val |-> "absent", hit |-> TRUE],
                                   NULL, tb, k, NoArg)
              /\ UNCHANGED <<committed, handles, objs, m_thread_txns, pc, stack>>
          ELSE
              /\ Install(c.W)
              /\ stack' = [stack EXCEPT ![t] = f]
              /\ pc' = [pc EXCEPT ![t] = "update"]
              /\ last' = InCall("update_call", t)
    /\ UNCHANGED <<m_transactions, m_mdbx_mutex, m_env, m_config>>

\* the next engine call of the update of thread t; when the lambda throws,
\* with_transaction rolls the scoped transaction back and rethrows
UpdateStep(t, fail) ==
    /\ pc[t] = "update"
    /\ stack[t].stage \in {"get", "put"}
    /\ LET f == stack[t]
           o == <<t, "auto">>
           r == IF f.stage = "get" THEN update_get(World, f, fail) ELSE update_put(World, f, fail)
       IN IF ~r.done THEN
              /\ Install(r.W)
              /\ stack' = [stack EXCEPT ![t] = r.f]
              /\ last' = InCall("update_call", t)
              /\ UNCHANGED pc
          ELSE IF r.err = "none" /\ f.via = "scoped" THEN
              /\ Install(r.W)
              /\ stack' = [stack EXCEPT ![t] = [r.f EXCEPT !.stage = "commit"]]
              /\ last' = InCall("update_call", t)
              /\ UNCHANGED pc
          ELSE IF f.via = "scoped" THEN
              /\ Install(Transaction_dtor(Transaction_rollback(r.W, o, t, FALSE).W, o, t))
              /\ UpdateReturn(t, r.f, r.err, r.f.hit)
          ELSE
              /\ Install(r.W)
              /\ UpdateReturn(t, r.f, r.err, r.f.hit)
    /\ UNCHANGED <<m_transactions, m_mdbx_mutex, m_env, m_config>>

\* with_transaction after the lambda returned: txn_guard.commit(), and on a
\* failure rollback and rethrow; the scoped Transaction is destroyed on return
UpdateFinish(t, cfail) ==
    /\ pc[t] = "update"
    /\ stack[t].stage = "commit"
    /\ LET f == stack[t]
           o == <<t, "auto">>
           cm == Transaction_commit(World, o, t, cfail)
       IN IF cm.err = "none" THEN
              /\ Install(Transaction_dtor(cm.W, o, t))
              /\ UpdateReturn(t, f, "none", f.hit)
          ELSE
              /\ Install(Transaction_dtor(Transaction_rollback(cm.W, o, t, FALSE).W, o, t))
              /\ UpdateReturn(t, f, cm.err, TRUE)
    /\ UNCHANGED <<m_transactions, m_mdbx_mutex, m_env, m_config>>

\* ------------------------------------------- operator[] read, call by call
\* ValueT def{}: the default-constructed value (an empty std::string)
DefaultValue == ""

\* AssignmentProxy::operator ValueT, first statement: m_db.find(m_key); a
\* value found is returned, otherwise the default is to be stored
ProxyFind(t, tb, k, fail) ==
    /\ pc[t] = "idle"
    /\ LET r == with_transaction(World, t, "READ_ONLY", NULL,
                                 Action("find", tb, k, "absent", NoArg,
                                        IF fail THEN <<"get", 1>> ELSE <<"none", 0>>), FALSE) IN
       /\ Install(r.W)
       /\ IF r.err = "none" /\ r.val = "absent" THEN
              /\ stack' = [stack EXCEPT ![t] = [NoFrame EXCEPT !.stage = "store", !.tb = tb, !.k = k]]
              /\ pc' = [pc EXCEPT ![t] = "read"]
              /\ last' = InCall("read_call", t)
          ELSE
              /\ last' = [TableCall("read", t, r, NULL, tb, k, NoArg) EXCEPT !.was = "found"]
              /\ UNCHANGED <<pc, stack>>
    /\ UNCHANGED <<m_transactions, m_mdbx_mutex, m_env, m_config>>

\* AssignmentProxy::operator ValueT, after find found nothing:
\* m_db.insert_or_assign(m_key, def); return def
ProxyStore(t, fail, cfail) ==
    /\ pc[t] = "read"
    /\ stack[t].stage = "store"
    /\ cfail => m_thread_txns[t] = NULL
    /\ ~(m_thread_txns[t] = NULL /\ WaitsForWriter(t, "WRITABLE"))
    /\ LET f == stack[t]
           r == with_transaction(World, t, "WRITABLE", NULL,
                                 Action("insert_or_assign", f.tb, f.k, DefaultValue, NoArg,
                                        IF fail THEN <<"put", 1>> ELSE <<"none", 0>>), cfail) IN
       /\ Install(r.W)
       /\ stack' = [stack EXCEPT ![t] = NoFrame]
       /\ pc' = [pc EXCEPT ![t] = "idle"]
       /\ last' = [TableCall("read", t, r, NULL, f.tb, f.k, NoArg) EXCEPT !.was = "default"]
    /\ UNCHANGED <<m_transactions, m_mdbx_mutex, m_env, m_config>>

\* the containers handed to reconcile: a std::map iterates its pairs in
\* ascending key order, so a container is a sequence of pairs with ascending keys
Containers(KS, n) ==
    {C \in UNION {[1..m -> KS \X Values] : m \in 0..n} :
        \A i, j \in 1..Len(C) : i < j => C[i][1] < C[j][1]}

\* the table content that stores exactly the pairs of container C
TableOf(C) == {<<serialize_key(C[i][1]), C[i][2]>> : i \in 1..Len(C)}

\* the contents a table with keys in KS can have
Contents(KS) ==
    {{<<serialize_key(k), f[k]>> : k \in {x \in KS : f[x] # "absent"}} :
        f \in [KS -> Values \cup {"absent"}]}

\* where the engine fails inside reconcile: the i-th put, the cursor open, the
\* i-th cursor step, the i-th cursor delete
Faults == {<<"none", 0>>, <<"open", 1>>} \cup ({"put", "step", "del"} \X (1..MaxLen))

\* --------------------------------------------------------- specifications
\* The transaction lifecycle: every Transaction and Connection call of both
\* threads, and the table calls on one cell.
Next ==
    \/ \E t \in Threads, mode \in Modes : ConnTransaction(t, mode)
    \/ \E t \in Threads : TxnBegin(t)
    \/ \E t \in Threads, fail \in BOOLEAN : TxnCommit(t, fail)
    \/ \E t \in Threads, fail \in BOOLEAN : TxnRollback(t, fail)
    \/ \E t \in Threads : TxnDestroy(t)
    \/ \E t \in Threads, mode \in Modes : ConnBegin(t, mode)
    \/ \E t \in Threads : ConnBeginResume(t)
    \/ \E t \in Threads, fail \in BOOLEAN : ConnCommit(t, fail)
    \/ \E t \in Threads, fail \in BOOLEAN : ConnRollback(t, fail)
    \/ \E t \in Threads, fail \in BOOLEAN, cfail \in BOOLEAN :
          \E txn \in TxnArgs(t) : InsertOrAssign(t, "numbers", 1, "x", txn, fail, cfail)
    \/ \E t \in Threads, fail \in BOOLEAN, cfail \in BOOLEAN :
          \E txn \in TxnArgs(t) : Find(t, "numbers", 1, txn, fail, cfail)

Spec == Init /\ [][Next]_vars

\* The data two threads see: manual transactions and table calls without an
\* explicit transaction, on both tables, with both values.  (Here only a manual
\* transaction holds the writer slot across calls, and Connection::commit and
\* rollback need m_mdbx_mutex: a Connection::begin that waits for the writer
\* while holding the mutex never resumes.)
NextData ==
    \/ \E t \in Threads, mode \in Modes : ConnBegin(t, mode)
    \/ \E t \in Threads : ConnCommit(t, FALSE)
    \/ \E t \in Threads : ConnRollback(t, FALSE)
    \/ \E t \in Threads, tb \in Tables, k \in Keys, v \in Values :
          InsertOrAssign(t, tb, k, v, NULL, FALSE, FALSE)
    \/ \E t \in Threads, tb \in Tables, k \in Keys : Find(t, tb, k, NULL, FALSE, FALSE)
    \/ \E t \in Threads, tb \in Tables, k \in Keys : Erase(t, tb, k, NULL, FALSE, FALSE)

SpecData == Init /\ [][NextData]_vars

\* reconcile on every table content: the table starts with any content over
\* RKeys, the container to reconcile with is drawn at the start and kept in
\* last.arg; thread 1 calls reconcile(container) without a transaction.
InitReconcile ==
    /\ \E c \in Contents(RKeys) : committed = [EmptyDB EXCEPT !["numbers"] = c]
    /\ handles = [h \in Handles |-> FreeHandle]
    /\ objs = [o \in ObjIds |-> DeadObj]
    /\ m_thread_txns = [t \in Threads |-> NULL]
    /\ m_transactions = [t \in Threads |-> FALSE]
    /\ m_mdbx_mutex = NULL
    /\ pc = [t \in Threads |-> "idle"]
    /\ \E C \in Containers(RKeys, MaxLen) : last = [NoCall EXCEPT !.arg = C]
    /\ m_env = 1
    /\ m_config = "cfgA"
    /\ stack = [t \in Threads |-> NoFrame]

NextReconcile ==
    \E fault \in Faults, cfail \in BOOLEAN : Reconcile(1, "numbers", last.arg, NULL, fault, cfail)

SpecReconcile == InitReconcile /\ [][NextReconcile]_vars

\* reconcile engine call by engine call on thread 1, in a scoped transaction or
\* in the thread's manual transaction, while thread 2 reads the table in scoped
\* transactions or in its manual READ_ONLY transaction; the table starts with
\* any content over StepKeys.
StepKeys == {1, 2}

InitSteps ==
    /\ \E c \in Contents(StepKeys) : committed = [EmptyDB EXCEPT !["numbers"] = c]
    /\ handles = [h \in Handles |-> FreeHandle]
    /\ objs = [o \in ObjIds |-> DeadObj]
    /\ m_thread_txns = [t \in Threads |-> NULL]
    /\ m_transactions = [t \in Threads |-> FALSE]
    /\ m_mdbx_mutex = NULL
    /\ pc = [t \in Threads |-> "idle"]
    /\ last = NoCall
    /\ m_env = 1
    /\ m_config = "cfgA"
    /\ stack = [t \in Threads |-> NoFrame]

NextSteps ==
    \/ \E C \in Containers(StepKeys, MaxLen) : ReconcileStart(1, "numbers", C)
    \/ \E fail \in BOOLEAN : ReconcileStep(1, fail)
    \/ \E cfail \in BOOLEAN : ReconcileFinish(1, cfail)
    \/ ConnBegin(1, "WRITABLE")
    \/ ConnBegin(2, "READ_ONLY")
    \/ \E t \in Threads : ConnCommit(t, FALSE)
    \/ \E t \in Threads : ConnRollback(t, FALSE)
    \/ RetrieveAll(2, "numbers", NULL, <<"none", 0>>, FALSE)

SpecSteps == InitSteps /\ [][NextSteps]_vars

\* the life of a Connection: it is default-constructed (no environment, no
\* configuration), connected and disconnected by either thread, and the
\* threads open and finish manual transactions on it.
InitConn ==
    /\ committed = EmptyDB
    /\ handles = [h \in Handles |-> FreeHandle]
    /\ objs = [o \in ObjIds |-> DeadObj]
    /\ m_thread_txns = [t \in Threads |-> NULL]
    /\ m_transactions = [t \in Threads |-> FALSE]
    /\ m_mdbx_mutex = NULL
    /\ pc = [t \in Threads |-> "idle"]
    /\ last = NoCall
    /\ m_env = NULL
    /\ m_config = NoConfig
    /\ stack = [t \in Threads |-> NoFrame]

NextConn ==
    \/ \E t \in Threads, cfg \in Configs \cup {NoConfig}, e \in EnvHandles, fail \in BOOLEAN :
          Connect(t, cfg, e, fail)
    \/ \E t \in Threads : Disconnect(t)
    \/ \E t \in Threads, mode \in Modes : ConnBegin(t, mode)
    \/ \E t \in Threads : ~Stale(t) /\ ConnCommit(t, FALSE)
    \/ \E t \in Threads : ~Stale(t) /\ ConnRollback(t, FALSE)
    \/ \E t \in Threads : UseAfterClose(t)

SpecConn == InitConn /\ [][NextConn]_vars

\* insert on every table content: the table starts with any content over
\* RKeys; thread 1 inserts pairs, in scoped transactions or inside its manual
\* transaction, with the engine failing the put or the scoped commit or not.
InitInsert ==
    /\ \E c \in Contents(RKeys) : committed = [EmptyDB EXCEPT !["numbers"] = c]
    /\ handles = [h \in Handles |-> FreeHandle]
    /\ objs = [o \in ObjIds |-> DeadObj]
    /\ m_thread_txns = [t \in Threads |-> NULL]
    /\ m_transactions = [t \in Threads |-> FALSE]
    /\ m_mdbx_mutex = NULL
    /\ pc = [t \in Threads |-> "idle"]
    /\ last = NoCall
    /\ m_env = 1
    /\ m_config = "cfgA"
    /\ stack = [t \in Threads |-> NoFrame]

NextInsert ==
    \/ \E k \in RKeys, v \in Values, fail \in BOOLEAN, cfail \in BOOLEAN :
          Insert(1, "numbers", k, v, NULL, fail, cfail)
    \/ ConnBegin(1, "WRITABLE")
    \/ ConnCommit(1, FALSE)
    \/ ConnRollback(1, FALSE)

SpecInsert == InitInsert /\ [][NextInsert]_vars

\* lookups on every table content: thread 1 calls at and find for stored and
\* missing keys, in scoped read-only transactions or inside its manual
\* transaction, where it also erases keys.
NextLookup ==
    \/ \E k \in RKeys, fail \in BOOLEAN, cfail \in BOOLEAN : At(1, "numbers", k, NULL, fail, cfail)
    \/ \E k \in RKeys, fail \in BOOLEAN, cfail \in BOOLEAN : Find(1, "numbers", k, NULL, fail, cfail)
    \/ \E k \in RKeys : Erase(1, "numbers", k, NULL, FALSE, FALSE)
    \/ \E mode \in Modes : ConnBegin(1, mode)
    \/ ConnCommit(1, FALSE)
    \/ ConnRollback(1, FALSE)

SpecLookup == InitInsert /\ [][NextLookup]_vars

\* load on every table content: int keys whose engine order differs from the
\* order of their bytes and from their signed order; thread 1 loads into an
\* empty or a filled vector, in scoped read-only transactions or inside its
\* manual transaction, with the engine failing a call of the walk or not.
LoadKeys == {-1, 1, 2, 256}
LoadFaults == {<<"none", 0>>, <<"open", 1>>} \cup ({"step"} \X (1..MaxLen))

InitLoad ==
    /\ \E c \in Contents(LoadKeys) : committed = [EmptyDB EXCEPT !["numbers"] = c]
    /\ handles = [h \in Handles |-> FreeHandle]
    /\ objs = [o \in ObjIds |-> DeadObj]
    /\ m_thread_txns = [t \in Threads |-> NULL]
    /\ m_transactions = [t \in Threads |-> FALSE]
    /\ m_mdbx_mutex = NULL
    /\ pc = [t \in Threads |-> "idle"]
    /\ last = NoCall
    /\ m_env = 1
    /\ m_config = "cfgA"
    /\ stack = [t \in Threads |-> NoFrame]

NextLoad ==
    \/ \E out \in {<<>>, <<<<2, "y">>>>}, fault \in LoadFaults, cfail \in BOOLEAN :
          Load(1, "numbers", out, NULL, fault, cfail)
    \/ \E mode \in Modes : ConnBegin(1, mode)
    \/ ConnCommit(1, FALSE)
    \/ ConnRollback(1, FALSE)

SpecLoad == InitLoad /\ [][NextLoad]_vars

\* table calls in scoped transactions only: thread 1 has no transaction of its
\* own and calls reconcile, insert_or_assign and find on every table content,
\* with the engine failing a call of the operation or the scoped commit or not.
NextScoped ==
    \/ \E C \in Containers(StepKeys, MaxLen), fault \in Faults, cfail \in BOOLEAN :
          Reconcile(1, "numbers", C, NULL, fault, cfail)
    \/ \E k \in StepKeys, v \in Values, fail \in BOOLEAN, cfail \in BOOLEAN :
          InsertOrAssign(1, "numbers", k, v, NULL, fail, cfail)
    \/ \E k \in StepKeys, fail \in BOOLEAN, cfail \in BOOLEAN :
          Find(1, "numbers", k, NULL, fail, cfail)

SpecScoped == InitSteps /\ [][NextScoped]_vars

\* two threads count the value of one key up with update, each call in its own
\* scoped transaction or in the manual transaction of its thread; the key
\* starts absent or with any count.
InitUpdate ==
    /\ \E v \in {"absent", "c0", "c1", "c2", "c3"} :
          committed = [EmptyDB EXCEPT !["numbers"] =
                          IF v = "absent" THEN EmptyTable ELSE {<<serialize_key(1), v>>}]
    /\ handles = [h \in Handles |-> FreeHandle]
    /\ objs = [o \in ObjIds |-> DeadObj]
    /\ m_thread_txns = [t \in Threads |-> NULL]
    /\ m_transactions = [t \in Threads |-> FALSE]
    /\ m_mdbx_mutex = NULL
    /\ pc = [t \in Threads |-> "idle"]
    /\ last = NoCall
    /\ m_env = 1
    /\ m_config = "cfgA"
    /\ stack = [t \in Threads |-> NoFrame]

NextUpdate ==
    \/ \E t \in Threads, create \in BOOLEAN : UpdateStart(t, "numbers", 1, create)
    \/ \E t \in Threads, fail \in BOOLEAN : UpdateStep(t, fail)
    \/ \E t \in Threads, cfail \in BOOLEAN : UpdateFinish(t, cfail)
    \/ \E t \in Threads, mode \in Modes : ConnBegin(t, mode)
    \/ \E t \in Threads : ConnBeginResume(t)
    \/ \E t \in Threads : ConnCommit(t, FALSE)
    \/ \E t \in Threads : ConnRollback(t, FALSE)

SpecUpdate == InitUpdate /\ [][NextUpdate]_vars

\* two threads read table[k] and write and erase the keys they read, every
\* call in its own scoped transaction; the table starts empty.
NextProxy ==
    \/ \E t \in Threads, k \in StepKeys, fail \in BOOLEAN : ProxyFind(t, "numbers", k, fail)
    \/ \E t \in Threads, fail \in BOOLEAN, cfail \in BOOLEAN : ProxyStore(t, fail, cfail)
    \/ \E t \in Threads, k \in StepKeys, v \in Values :
          InsertOrAssign(t, "numbers", k, v, NULL, FALSE, FALSE)
    \/ \E t \in Threads, k \in StepKeys : Erase(t, "numbers", k, NULL, FALSE, FALSE)

SpecProxy == Init /\ [][NextProxy]_vars

\* writes of a thread that has a transaction registered: thread 1 opens manual
\* and RAII transactions of either mode and calls insert_or_assign, insert,
\* erase and reconcile without a transaction argument, on every table content.
NextReadOnly ==
    \/ \E mode \in Modes : ConnBegin(1, mode)
    \/ ConnCommit(1, FALSE)
    \/ ConnRollback(1, FALSE)
    \/ \E mode \in Modes : ConnTransaction(1, mode)
    \/ TxnDestroy(1)
    \/ \E k \in StepKeys, v \in Values : InsertOrAssign(1, "numbers", k, v, NULL, FALSE, FALSE)
    \/ \E k \in StepKeys, v \in Values : Insert(1, "numbers", k, v, NULL, FALSE, FALSE)
    \/ \E k \in StepKeys : Erase(1, "numbers", k, NULL, FALSE, FALSE)
    \/ \E C \in Containers(StepKeys, MaxLen) :
          Reconcile(1, "numbers", C, NULL, <<"none", 0>>, FALSE)

SpecReadOnly == InitSteps /\ [][NextReadOnly]_vars

\* BaseTable::BaseTable after auto txn = m_connection->transaction() gave c:
\* mdbx_dbi_open under check_mdbx, txn.commit(), and the destructor of txn on
\* every way out.  dfail: the engine fails mdbx_dbi_open.
BaseTable_ctor(c, o, t, dfail) ==
    IF c.err # "none" THEN c
    ELSE IF dfail THEN [err |-> "engine", W |-> Transaction_dtor(c.W, o, t)]
    ELSE [err |-> Transaction_commit(c.W, o, t, FALSE).err,
          W |-> Transaction_dtor(Transaction_commit(c.W, o, t, FALSE).W, o, t)]

\* KeyValueTable<K, V> tbl(conn, name) on thread t; last.was is the state of
\* the manual transaction of the thread when the constructor is called
TableCtor(t, dfail) ==
    /\ UNCHANGED <<m_env, m_config, stack>>
    /\ pc[t] = "idle"
    /\ ~WaitsForWriter(t, "WRITABLE")
    /\ LET r == BaseTable_ctor(Transaction_ctor(World, <<t, "auto">>, t, "WRITABLE"),
                               <<t, "auto">>, t, dfail) IN
       /\ Install(r.W)
       /\ last' = Call("table_ctor", t, r.err, <<t, "manual">>, "WRITABLE")
    /\ UNCHANGED <<m_transactions, m_mdbx_mutex, pc>>

\* tables constructed before and after Connection::begin, and the writes and
\* the commit that follow
NextCtor ==
    \/ \E t \in Threads, dfail \in BOOLEAN : TableCtor(t, dfail)
    \/ \E t \in Threads, mode \in Modes : ConnBegin(t, mode)
    \/ \E t \in Threads : ConnCommit(t, FALSE)
    \/ \E t \in Threads : ConnRollback(t, FALSE)
    \/ \E t \in Threads, k \in Keys, v \in Values :
          InsertOrAssign(t, "numbers", k, v, NULL, FALSE, FALSE)

SpecCtor == Init /\ [][NextCtor]_vars

\* ----------------------------------------------------------- value codec
\* A std::string is a sequence of char (signed, one byte each); the engine
\* holds a value as a sequence of bytes 0..255.
Chars == {-1, 0, 97}
byte_of(c) == c % 256
char_of(b) == IF b >= 128 THEN b - 256 ELSE b
chars_of(b) == [i \in 1..Len(b) |-> char_of(b[i])]

\* memcpy of a w-byte integer to and from bytes (little-endian targets)
RECURSIVE pow256(_)
pow256(i) == IF i = 0 THEN 1 ELSE 256 * pow256(i - 1)
le_bytes(n, w) == [i \in 1..w |-> (n \div pow256(i - 1)) % 256]
RECURSIVE le_value(_)
le_value(b) == IF b = <<>> THEN 0 ELSE b[1] + 256 * le_value(Tail(b))

\* the fixed-size value type of the model: int16_t
PodSize == 2
pod_value(b) == IF le_value(b) >= 32768 THEN le_value(b) - 65536 ELSE le_value(b)

\* serialize_value(std::string): a view of data(), size()
serialize_string(s) == [i \in 1..Len(s) |-> byte_of(s[i])]
\* deserialize_value<std::string>: std::string(iov_base, iov_len)
deserialize_string(b) == [err |-> "none", val |-> chars_of(b)]

\* serialize_value (trivially copyable T): a view of sizeof(T) bytes
serialize_pod(v) == le_bytes(v % 65536, PodSize)
\* deserialize_value (trivially copyable T): iov_len must be sizeof(T)
deserialize_pod(b) ==
    IF Len(b) # PodSize THEN [err |-> "format", val |-> 0]
    ELSE [err |-> "none", val |-> pod_value(b)]

\* serialize_value (vector of trivially copyable elements): memcpy of the
\* elements into the scratch buffer
RECURSIVE serialize_vector(_)
serialize_vector(C) ==
    IF C = <<>> THEN <<>> ELSE serialize_pod(Head(C)) \o serialize_vector(Tail(C))
\* deserialize_value (vector of trivially copyable elements): iov_len must be
\* a multiple of sizeof(Elem); count = iov_len / sizeof(Elem)
deserialize_vector(b) ==
    IF Len(b) % PodSize # 0 THEN [err |-> "format", val |-> <<>>]
    ELSE [err |-> "none",
          val |-> [i \in 1..(Len(b) \div PodSize) |->
                      pod_value(SubSeq(b, PodSize * (i - 1) + 1, PodSize * i))]]

\* a container of strings written with one terminating zero byte per string
\* and no length
RECURSIVE serialize_strings_terminated(_)
serialize_strings_terminated(C) ==
    IF C = <<>> THEN <<>>
    ELSE serialize_string(Head(C)) \o <<0>> \o serialize_strings_terminated(Tail(C))

\* serialize_value (container of strings): for each string in iteration order
\* its uint32_t size, then its bytes
RECURSIVE serialize_strings(_)
serialize_strings(C) ==
    IF C = <<>> THEN <<>>
    ELSE le_bytes(Len(Head(C)), 4) \o serialize_string(Head(C)) \o serialize_strings(Tail(C))

\* a decoder that stops at a length that passes the end of the buffer and
\* hands back the strings read so far
RECURSIVE deserialize_strings_lenient(_, _, _)
deserialize_strings_lenient(b, ptr, result) ==
    IF ptr + 4 <= Len(b)
    THEN LET len == le_value(SubSeq(b, ptr + 1, ptr + 4)) IN
         IF ptr + 4 + len > Len(b) THEN [err |-> "none", val |-> result]
         ELSE deserialize_strings_lenient(b, ptr + 4 + len,
                  Append(result, chars_of(SubSeq(b, ptr + 5, ptr + 4 + len))))
    ELSE [err |-> "none", val |-> result]

\* deserialize_value (container of strings): the while loop; ptr is the offset
\* of the read position in the buffer, end is Len(b)
RECURSIVE deserialize_strings(_, _, _)
deserialize_strings(b, ptr, result) ==
    IF ptr + 4 <= Len(b)
    THEN LET len == le_value(SubSeq(b, ptr + 1, ptr + 4)) IN
         IF ptr + 4 + len > Len(b) THEN [err |-> "format", val |-> <<>>]
         ELSE deserialize_strings(b, ptr + 4 + len,
                  Append(result, chars_of(SubSeq(b, ptr + 5, ptr + 4 + len))))
    ELSE IF ptr # Len(b) THEN [err |-> "format", val |-> <<>>]
    ELSE [err |-> "none", val |-> result]

\* std::less<std::string>: lexicographic comparison of the chars as unsigned
\* char; a proper prefix is smaller
RECURSIVE StrLess(_, _)
StrLess(x, y) ==
    IF y = <<>> THEN FALSE
    ELSE IF x = <<>> THEN TRUE
    ELSE IF byte_of(Head(x)) # byte_of(Head(y)) THEN byte_of(Head(x)) < byte_of(Head(y))
    ELSE StrLess(Tail(x), Tail(y))

\* iteration over a std::set<std::string>: its elements in ascending order
RECURSIVE SetOrder(_)
SetOrder(S) ==
    IF S = {} THEN <<>>
    ELSE LET m == CHOOSE x \in S : \A y \in S \ {x} : StrLess(x, y) IN
         <<m>> \o SetOrder(S \ {m})

SeqRange(C) == {C[i] : i \in 1..Len(C)}

\* deserialize_value (std::set of strings): the same loop with result.insert
deserialize_string_set(b) ==
    LET r == deserialize_strings(b, 0, <<>>) IN
    IF r.err # "none" THEN [err |-> r.err, val |-> {}]
    ELSE [err |-> "none", val |-> SeqRange(r.val)]

\* the value types of the model and the overload each one selects
ValueTypes == {"string", "pod", "vector_pod", "vector_string", "set_string"}

serialize_value(ty, v) ==
    CASE ty = "string" -> serialize_string(v)
      [] ty = "pod" -> serialize_pod(v)
      [] ty = "vector_pod" -> serialize_vector(v)
      [] ty = "vector_string" -> serialize_strings(v)
      [] OTHER -> serialize_strings(SetOrder(v))

deserialize_value(ty, b) ==
    CASE ty = "string" -> deserialize_string(b)
      [] ty = "pod" -> deserialize_pod(b)
      [] ty = "vector_pod" -> deserialize_vector(b)
      [] ty = "vector_string" -> deserialize_strings(b, 0, <<>>)
      [] OTHER -> deserialize_string_set(b)

\* the values of each type, and the byte buffers the engine can hand back
SeqsUpTo(S, n) == UNION {[1..m -> S] : m \in 0..n}
Strs == SeqsUpTo(Chars, MaxStr)
Pods == {-32768, -1, 0, 1, 255, 256, 32767}
ValuesOf(ty) ==
    CASE ty = "string" -> Strs
      [] ty = "pod" -> Pods
      [] ty = "vector_pod" -> SeqsUpTo(Pods, MaxLen)
      [] ty = "vector_string" -> SeqsUpTo(Strs, MaxLen)
      [] OTHER -> {SeqRange(C) : C \in SeqsUpTo(Strs, MaxLen)}
Buffers == SeqsUpTo({0, 1, 97}, MaxBuf)

\* -------------------------------------------------------------- key codec
\* the numeric key types; a float or double is given by the bytes of its
\* IEEE754 bit pattern, least significant first
IntKeyTypes == {"int8_t", "uint8_t", "int16_t", "uint16_t", "int32_t", "uint32_t",
                "int64_t", "uint64_t"}
FloatKeyTypes == {"float", "double"}

\* get_mdbx_flags<T>: MDBX_INTEGERKEY for int, int32_t, uint32_t, int64_t,
\* uint64_t, float, double, char and unsigned char (uint8_t); 0 otherwise
get_mdbx_flags(ty) ==
    IF ty \in {"int32_t", "uint32_t", "int64_t", "uint64_t", "float", "double", "uint8_t"}
    THEN "MDBX_INTEGERKEY" ELSE "none"

\* a float key written as its bit pattern
sortable_key_raw(u) == u

\* sortable_key_from_float / sortable_key_from_double on the bytes of u:
\* (u & signbit) ? ~u : (u ^ signbit)
sortable_key(u) ==
    IF u[Len(u)] >= 128 THEN [i \in 1..Len(u) |-> 255 - u[i]]
    ELSE [u EXCEPT ![Len(u)] = @ + 128]

\* serialize_key<T>: integral keys of up to 2 bytes are cast to uint32_t,
\* 4- and 8-byte integral keys are their native bytes, float and double keys
\* the bytes of their sortable key
serialize_key_of(ty, v) ==
    CASE ty \in FloatKeyTypes -> sortable_key(v)
      [] ty \in {"int64_t", "uint64_t"} ->
            serialize_key(v) \o [i \in 1..4 |-> IF v < 0 THEN 255 ELSE 0]
      [] OTHER -> serialize_key(v)

\* the engine's default key comparison: the bytes from the first on, as memcmp
RECURSIVE LexLess(_, _)
LexLess(a, b) ==
    IF b = <<>> THEN FALSE
    ELSE IF a = <<>> THEN TRUE
    ELSE IF Head(a) # Head(b) THEN Head(a) < Head(b)
    ELSE LexLess(Tail(a), Tail(b))

\* the engine's comparison of two keys of a table opened with flags
mdbx_cmp_less(flags, a, b) ==
    IF flags = "MDBX_INTEGERKEY" THEN KeyLess(a, b) ELSE LexLess(a, b)

\* the values of each key type the model stores
SignBit(m, sg) == [m EXCEPT ![Len(m)] = @ + 128 * sg]
KeysOfType(ty) ==
    CASE ty = "int8_t" -> {-128, -1, 0, 1, 127}
      [] ty = "uint8_t" -> {0, 1, 127, 128, 255}
      [] ty = "int16_t" -> {-32768, -1, 0, 1, 255, 256, 32767}
      [] ty = "uint16_t" -> {0, 1, 255, 256, 65535}
      [] ty \in {"int32_t", "int64_t"} -> {-2147483647, -256, -1, 0, 1, 256, 2147483647}
      [] ty \in {"uint32_t", "uint64_t"} -> {0, 1, 255, 256, 65536, 2147483647}
      [] ty = "float" ->
            {SignBit(m, sg) : sg \in {0, 1},
                m \in {<<0, 0, 0, 0>>, <<1, 0, 0, 0>>, <<0, 1, 0, 0>>, <<0, 0, 128, 63>>,
                       <<0, 0, 0, 64>>, <<255, 255, 127, 127>>, <<0, 0, 128, 127>>,
                       <<0, 0, 192, 127>>}}
      [] OTHER ->
            {SignBit(m, sg) : sg \in {0, 1},
                m \in {<<0, 0, 0, 0, 0, 0, 0, 0>>, <<1, 0, 0, 0, 0, 0, 0, 0>>,
                       <<0, 0, 0, 0, 1, 0, 0, 0>>, <<0, 0, 0, 0, 0, 0, 240, 63>>,
                       <<0, 0, 0, 0, 0, 0, 0, 64>>, <<255, 255, 255, 255, 255, 255, 239, 127>>,
                       <<0, 0, 0, 0, 0, 0, 240, 127>>, <<0, 0, 0, 0, 0, 0, 248, 127>>}}

\* --------------------------------------------------------- database path
\* A path is absolute or not and has components; "." and ".." are components.
\* is_absolute_path
is_absolute_path(p) == p.abs

\* how the operating system reaches a path: a relative one from the working
\* directory cwd; "." stays, ".." goes to the parent
RECURSIVE Walk(_, _)
Walk(at, c) ==
    IF c = <<>> THEN at
    ELSE IF Head(c) = "." THEN Walk(at, Tail(c))
    ELSE IF Head(c) = ".." THEN Walk(IF at = <<>> THEN at ELSE SubSeq(at, 1, Len(at) - 1), Tail(c))
    ELSE Walk(Append(at, Head(c)), Tail(c))
Location(p, cwd) == IF p.abs THEN Walk(<<>>, p.c) ELSE Walk(cwd, p.c)

\* Connection::db_init, the path given to mdbx_env_open: with relative_to_exe
\* and a pathname that is not absolute, get_exec_dir() / pathname
db_init_pathname(pathname, relative_to_exe, exe_dir) ==
    IF relative_to_exe /\ ~is_absolute_path(pathname)
    THEN [abs |-> TRUE, c |-> exe_dir \o pathname.c]
    ELSE pathname

\* expected_path_from_policy of the path resolution test
expected_path_from_policy(pathname, relative_to_exe, exe_dir, cwd) ==
    IF pathname.abs THEN Walk(<<>>, pathname.c)
    ELSE IF Head(pathname.c) \in {".", ".."} THEN Walk(cwd, pathname.c)
    ELSE IF relative_to_exe THEN Walk(exe_dir, pathname.c)
    ELSE Walk(cwd, pathname.c)

\* the directory of the executable, the working directories a process can
\* have, and the pathnames of a Config
ExeDir == <<"opt", "app">>
WorkDirs == {ExeDir, <<"home">>}
Pathnames ==
    {[abs |-> FALSE, c |-> c] :
        c \in {<<"data", "db">>, <<".", "data", "db">>, <<"..", "data", "db">>}}
    \cup {[abs |-> TRUE, c |-> <<"var", "db">>]}

\* ------------------------------------------------------------- type tags
\* AnyValueTable::wrap_with_type_tag<T>: the bytes to store for raw
wrap_with_type_tag(m_check_type_tag, ty, raw) ==
    IF ~m_check_type_tag THEN raw ELSE raw

\* AnyValueTable::unwrap_and_check_type_tag<T>: the bytes to decode as T
unwrap_and_check_type_tag(m_check_type_tag, ty, raw) ==
    IF ~m_check_type_tag THEN [err |-> "none", val |-> raw]
    ELSE [err |-> "none", val |-> raw]

\* AnyValueTable::get_typed<T> on the bytes mdbx_get found
get_typed(m_check_type_tag, ty, db_val) ==
    IF unwrap_and_check_type_tag(m_check_type_tag, ty, db_val).err # "none"
    THEN [err |-> unwrap_and_check_type_tag(m_check_type_tag, ty, db_val).err, val |-> NoArg]
    ELSE deserialize_value(ty, unwrap_and_check_type_tag(m_check_type_tag, ty, db_val).val)

\* the types stored in and read from an AnyValueTable
AnyTypes == {"string", "pod", "vector_pod"}

\* last.op = "typed": a value last.arg[2] of type last.arg[1] to store with
\* set<U> and to read with get<T>, T = last.mode, in a table whose
\* m_check_type_tag is last.hit; "got": last.res is what get<T> raised,
\* last.arg[3] the bytes stored and last.arg[4] the value returned.
\* last.op = "config": a Config with pathname last.arg[1] and relative_to_exe
\* last.arg[2] in a process whose working directory is last.arg[3]; "opened":
\* db_init ran, last.arg[4] is the directory path the environment was opened at.
\* last.op = "keys": two keys of type last.mode to store, in last.arg[1] and
\* last.arg[2]; "walked": both were written to an empty table and a cursor
\* walked it, last.arg[3] and last.arg[4] are the stored keys and last.arg[5]
\* the keys in the order the cursor visited them.
\* last.op = "value": a value of type last.mode to store, in last.arg[1];
\* "stored": bytes in last.arg[2], written by serialize_value or found in the
\* database; "loaded": deserialize_value ran on them, last.res is the error it
\* raised and last.arg[3] the value it returned.
InitCodec ==
    /\ committed = EmptyDB
    /\ handles = [h \in Handles |-> FreeHandle]
    /\ objs = [o \in ObjIds |-> DeadObj]
    /\ m_thread_txns = [t \in Threads |-> NULL]
    /\ m_transactions = [t \in Threads |-> FALSE]
    /\ m_mdbx_mutex = NULL
    /\ pc = [t \in Threads |-> "idle"]
    /\ m_env = 1
    /\ m_config = "cfgA"
    /\ stack = [t \in Threads |-> NoFrame]
    /\ \/ \E ty \in ValueTypes : \E v \in ValuesOf(ty) :
             last = [NoCall EXCEPT !.op = "value", !.mode = ty, !.arg = <<v>>]
       \/ \E ty \in {"vector_string", "set_string"}, b \in Buffers :
             last = [NoCall EXCEPT !.op = "stored", !.mode = ty, !.via = "database",
                                   !.arg = <<NoArg, b>>]
       \/ \E ty \in IntKeyTypes \cup FloatKeyTypes : \E a, b \in KeysOfType(ty) :
             last = [NoCall EXCEPT !.op = "keys", !.mode = ty, !.arg = <<a, b>>]
       \/ \E pathname \in Pathnames, relative_to_exe \in BOOLEAN, cwd \in WorkDirs :
             last = [NoCall EXCEPT !.op = "config", !.arg = <<pathname, relative_to_exe, cwd>>]
       \/ \E U \in AnyTypes, T \in AnyTypes, check \in BOOLEAN : \E v \in ValuesOf(U) :
             last = [NoCall EXCEPT !.op = "typed", !.mode = T, !.hit = check, !.arg = <<U, v>>]

\* db_insert_or_assign: serialize_value(value) is what mdbx_put stores
SerializeValue ==
    /\ last.op = "value"
    /\ last' = [last EXCEPT !.op = "stored", !.via = "serialize_value",
                            !.arg = <<last.arg[1], serialize_value(last.mode, last.arg[1])>>]
    /\ UNCHANGED <<committed, handles, objs, m_thread_txns, m_transactions, m_mdbx_mutex,
                   pc, m_env, m_config, stack>>

\* db_get: deserialize_value<ValueT> of what mdbx_get found
DeserializeValue ==
    /\ last.op = "stored"
    /\ LET r == deserialize_value(last.mode, last.arg[2]) IN
       last' = [last EXCEPT !.op = "loaded", !.res = r.err,
                            !.arg = <<last.arg[1], last.arg[2], r.val>>]
    /\ UNCHANGED <<committed, handles, objs, m_thread_txns, m_transactions, m_mdbx_mutex,
                   pc, m_env, m_config, stack>>

\* insert_or_assign of two keys into an empty table of KeyValueTable<T, V>,
\* opened with get_mdbx_flags<T>(), then a cursor walk with MDBX_NEXT
StoreKeys ==
    /\ last.op = "keys"
    /\ LET a == last.arg[1]
           b == last.arg[2]
           ka == serialize_key_of(last.mode, a)
           kb == serialize_key_of(last.mode, b)
           flags == get_mdbx_flags(last.mode)
       IN last' = [last EXCEPT !.op = "walked",
                     !.arg = <<a, b, ka, kb,
                               IF mdbx_cmp_less(flags, ka, kb) THEN <<a, b>>
                               ELSE IF mdbx_cmp_less(flags, kb, ka) THEN <<b, a>>
                               ELSE <<b>>>>]
    /\ UNCHANGED <<committed, handles, objs, m_thread_txns, m_transactions, m_mdbx_mutex,
                   pc, m_env, m_config, stack>>

\* sizeof(KeyT)
SizeOf(ty) ==
    CASE ty \in {"int8_t", "uint8_t"} -> 1
      [] ty \in {"int16_t", "uint16_t"} -> 2
      [] ty \in {"int32_t", "uint32_t", "float"} -> 4
      [] OTHER -> 8

\* deserialize_value<KeyT> (trivially copyable) on a stored key: the length
\* must be sizeof(KeyT), then memcpy; a float or double comes back as the
\* bytes of its bit pattern, an integer as its value (the 8-byte keys of the
\* model are sign extensions of 4-byte values)
deserialize_key_of(ty, b) ==
    IF Len(b) # SizeOf(ty) THEN [err |-> "format", val |-> NoArg]
    ELSE IF ty \in FloatKeyTypes THEN [err |-> "none", val |-> b]
    ELSE [err |-> "none", val |-> deserialize_key(SubSeq(b, 1, 4)).key]

\* db_load / db_list_keys on the table StoreKeys wrote: deserialize_value<KeyT>
\* of the stored key of the first pair; last.arg[6] is the key handed back
LoadStoredKey ==
    /\ last.op = "walked"
    /\ LET r == deserialize_key_of(last.mode, last.arg[3]) IN
       last' = [last EXCEPT !.op = "listed", !.res = r.err,
                            !.arg = <<last.arg[1], last.arg[2], last.arg[3], last.arg[4],
                                      last.arg[5], r.val>>]
    /\ UNCHANGED <<committed, handles, objs, m_thread_txns, m_transactions, m_mdbx_mutex,
                   pc, m_env, m_config, stack>>

\* get_parent_path: the path without its last component
get_parent_path(p) == [p EXCEPT !.c = SubSeq(p.c, 1, Len(p.c) - 1)]

\* create_directories(path): the directory that exists afterwards, the parent
\* of path as the operating system reaches it from the working directory
create_directories(path, cwd) == Location(get_parent_path(path), cwd)

\* Connection::initialize: create_directories(m_config->pathname), then
\* db_init with mdbx_env_open(m_env, pathname, ...); last.arg[5] is the
\* directory create_directories made
OpenEnv ==
    /\ last.op = "config"
    /\ last' = [last EXCEPT !.op = "opened",
                  !.arg = <<last.arg[1], last.arg[2], last.arg[3],
                            Location(db_init_pathname(last.arg[1], last.arg[2], ExeDir),
                                     last.arg[3]),
                            create_directories(last.arg[1], last.arg[3])>>]
    /\ UNCHANGED <<committed, handles, objs, m_thread_txns, m_transactions, m_mdbx_mutex,
                   pc, m_env, m_config, stack>>

\* AnyValueTable::set<U>(key, value) (put_typed) and then get<T>(key)
SetThenGet ==
    /\ last.op = "typed"
    /\ LET db_val == wrap_with_type_tag(last.hit, last.arg[1],
                                        serialize_value(last.arg[1], last.arg[2]))
           r == get_typed(last.hit, last.mode, db_val)
       IN last' = [last EXCEPT !.op = "got", !.res = r.err,
                               !.arg = <<last.arg[1], last.arg[2], db_val, r.val>>]
    /\ UNCHANGED <<committed, handles, objs, m_thread_txns, m_transactions, m_mdbx_mutex,
                   pc, m_env, m_config, stack>>

NextCodec ==
    \/ SerializeValue \/ DeserializeValue \/ StoreKeys \/ OpenEnv \/ SetThenGet
    \/ LoadStoredKey

SpecCodec == InitCodec /\ [][NextCodec]_vars

\* -------------------------------------------------------------- properties
TableOps == {"insert_or_assign", "find", "erase", "reconcile", "retrieve_all", "insert", "at",
             "load"}
\* the Transaction object a Transaction or Connection call of thread t acts on
ObjOf(op, t) == IF op \in {"begin", "commit", "rollback"} THEN <<t, "manual">> ELSE <<t, "raii">>

\* C1: destroying a WRITABLE Transaction while it is Active aborts it: the
\* destructor leaves the committed content as it was and releases the handle
\* together with its writes, so no transaction begun later can see any of them.
C1_DestroyAborts ==
    [][(last'.op = "txn_destroy" /\ last'.was = "active" /\ last'.mode = "WRITABLE")
         => /\ committed' = committed
            /\ handles'[last'.txn] = FreeHandle
            /\ ~objs'[<<last'.t, "raii">>].alive]_vars

C1_Witness ==
    /\ last.op = "txn_destroy" /\ last.was = "active" /\ last.mode = "WRITABLE"
    /\ handles[last.txn] = FreeHandle
    /\ committed = EmptyDB

\* C2: Connection::begin on a thread that has a manual transaction raises the
\* usage error and changes nothing (the first transaction stays open and
\* bound); once Connection::commit or rollback has returned normally the thread
\* has no manual transaction and nothing open in the engine, and a begin made
\* in such a state returns normally with the new transaction open and bound.
C2_ManualBegin ==
    /\ [][(last'.op = "begin" /\ m_transactions[last'.t])
            => /\ last'.res = "usage"
               /\ UNCHANGED <<committed, handles, objs, m_thread_txns, m_transactions>>]_vars
    /\ []((last.op \in {"commit", "rollback"} /\ last.res = "none")
            => (~m_transactions[last.t] /\ ~ThreadHasOpen(handles, last.t)))
    /\ [][(last'.op = "begin" /\ ~m_transactions[last'.t] /\ ~ThreadHasOpen(handles, last'.t))
            => /\ last'.res = "none"
               /\ m_transactions'[last'.t]
               /\ Active(objs'[<<last'.t, "manual">>])
               /\ m_thread_txns'[last'.t] = objs'[<<last'.t, "manual">>].m_txn
               /\ handles'[m_thread_txns'[last'.t]].st = "active"]_vars

C2_Witness ==
    /\ last.op = "begin" /\ last.res = "usage"
    /\ m_transactions[last.t]
    /\ Active(objs[<<last.t, "manual">>])
    /\ m_thread_txns[last.t] = objs[<<last.t, "manual">>].m_txn

\* C3: every thread has at most one transaction open, and a
\* Connection::transaction() or Connection::begin() made while the thread has a
\* registered transaction raises an error and leaves the registered handle.
C3_OnePerThread ==
    /\ [](\A t \in Threads :
            Cardinality({h \in Handles : handles[h].st = "active" /\ handles[h].owner = t}) <= 1)
    /\ [][(last'.op \in {"transaction", "begin"} /\ m_thread_txns[last'.t] # NULL)
            => (last'.res # "none" /\ m_thread_txns'[last'.t] = m_thread_txns[last'.t])]_vars

\* C4: the registry has an entry for a thread exactly when one of the thread's
\* Transaction objects is Active.
C4_RegistryIffActive ==
    \A t \in Threads :
        (m_thread_txns[t] # NULL) <=> (\E kd \in Kinds : Active(objs[<<t, kd>>]))

\* C5: when Transaction::commit or Transaction::rollback (called directly or
\* through Connection::commit / rollback) raises an engine error, the object is
\* not Active and holds no handle, the handle it had is released, and the
\* calling thread has no registry entry.
C5_FailedFinalize ==
    (last.op \in {"txn_commit", "txn_rollback", "commit", "rollback"} /\ last.res = "engine")
        => /\ ~objs[ObjOf(last.op, last.t)].m_started
           /\ objs[ObjOf(last.op, last.t)].m_txn = NULL
           /\ handles[last.txn] = FreeHandle
           /\ m_thread_txns[last.t] = NULL

C5_Witness ==
    /\ last.op \in {"txn_commit", "txn_rollback"} /\ last.res = "engine"
    /\ last.was = "active" /\ last.mode = "WRITABLE"
    /\ handles[last.txn] = FreeHandle

\* C6: when Connection::commit or Connection::rollback raises an engine
\* error, the thread has no manual transaction left (current_txn() is none).
C6_FailedManualFinalize ==
    (last.op \in {"commit", "rollback"} /\ last.res = "engine")
        => current_txn(last.t) = <<NULL, "none">>

\* C7: a table call runs on the transaction argument if one is given, else on
\* the transaction registered for the calling thread, else on a fresh scoped
\* transaction; no handle but the chosen one is touched, and a call on an
\* explicit or thread-bound transaction leaves that transaction open: the
\* committed content, the Transaction objects, the registry and the state of
\* every handle stay as they were.
C7_OneTransaction ==
    [][last'.op \in TableOps =>
        LET t == last'.t
            used == IF last'.txn # NULL THEN last'.txn
                    ELSE IF m_thread_txns[t] # NULL THEN m_thread_txns[t]
                    ELSE HandleOf(<<t, "auto">>)
        IN /\ last'.via = (IF last'.txn # NULL THEN "explicit"
                           ELSE IF m_thread_txns[t] # NULL THEN "thread" ELSE "scoped")
           /\ \A h \in Handles \ {used} : handles'[h] = handles[h]
           /\ last'.via \in {"explicit", "thread"} =>
                 /\ committed' = committed
                 /\ objs' = objs
                 /\ m_thread_txns' = m_thread_txns
                 /\ handles'[used].st = handles[used].st]_vars

C7_Witness ==
    /\ last.op = "insert_or_assign" /\ last.via = "thread" /\ last.res = "none"
    /\ handles[m_thread_txns[last.t]].st = "active"
    /\ Has(handles[m_thread_txns[last.t]].view["numbers"], serialize_key(1))
    /\ committed = EmptyDB

\* C8: while the manual WRITABLE transaction of a thread is Active, every table
\* call of that thread without a transaction argument runs in it.
C8_ManualScope ==
    (/\ last.op \in TableOps /\ last.txn = NULL
     /\ m_transactions[last.t]
     /\ Active(objs[<<last.t, "manual">>])
     /\ objs[<<last.t, "manual">>].m_mode = "WRITABLE")
        => last.via = "thread"

\* C9 as stated: a find(k) called on one thread right after insert_or_assign(k, v)
\* has returned on another thread returns v.
C9_FindAfterInsert ==
    [][(/\ last.op = "insert_or_assign" /\ last.res = "none"
        /\ last'.op = "find" /\ last'.res = "none"
        /\ last'.t # last.t /\ last'.tb = last.tb /\ last'.k = last.k)
          => last'.val = last.val]_vars

\* C9, amended: with both calls in their own scoped transactions.  When
\* insert_or_assign(k, v) returns from a scoped transaction the committed
\* content holds v at k; a find(k) in a scoped transaction returns the committed
\* value of k; and the committed content changes only in a write call or a
\* commit that returns normally.  So a scoped find(k) that begins after a
\* scoped insert_or_assign(k, v) has returned, with no write to k and no commit
\* in between, returns exactly v.
C9_ScopedFindAfterInsert ==
    /\ []((last.op = "insert_or_assign" /\ last.res = "none" /\ last.via = "scoped")
            => Get(committed[last.tb], serialize_key(last.k)) = last.val)
    /\ []((last.op = "find" /\ last.res = "none" /\ last.via = "scoped")
            => last.val = Get(committed[last.tb], serialize_key(last.k)))
    /\ [][committed' # committed
            => (/\ last'.res = "none"
                /\ \/ last'.op \in {"commit", "txn_commit"}
                   \/ last'.op \in {"insert_or_assign", "erase", "reconcile"} /\ last'.via = "scoped")]_vars
    /\ [][(/\ last.op = "insert_or_assign" /\ last.res = "none" /\ last.via = "scoped"
           /\ last'.op = "find" /\ last'.res = "none" /\ last'.via = "scoped"
           /\ last'.t # last.t /\ last'.tb = last.tb /\ last'.k = last.k)
             => last'.val = last.val]_vars

C9_Witness ==
    /\ last.op = "find" /\ last.res = "none" /\ last.via = "scoped"
    /\ last.t = 2 /\ last.tb = "strings" /\ last.val = "y"
    /\ ~m_transactions[1] /\ ~m_transactions[2]

\* C10: after reconcile(C) has returned normally the table stores exactly the
\* pairs of C.
C10_ReconcileExact ==
    (last.op = "reconcile" /\ last.res = "none")
        => committed[last.tb] = TableOf(last.arg)

\* C15: commit() or rollback() on a Transaction that is not Active (already
\* committed, already rolled back, or whose begin failed) raises a usage error
\* and changes neither the stored content, the engine handles, the Transaction
\* objects nor the registry; a commit or rollback that succeeds was made on an
\* Active transaction, so each transaction is finalized once.
C15_FinalizeOnce ==
    [][last'.op \in {"txn_commit", "txn_rollback", "commit", "rollback"} =>
          /\ last'.was # "active" =>
                /\ last'.res = "usage"
                /\ UNCHANGED <<committed, handles, objs, m_thread_txns, m_transactions>>
          /\ last'.res = "none" => last'.was = "active"]_vars

\* a rollback of an already committed READ_ONLY Transaction (its handle is
\* still allocated) was refused
C15_Witness ==
    /\ last.op = "txn_rollback"
    /\ last.was = "finalized"
    /\ last.txn # NULL
    /\ last.res = "usage"

\* C16: Connection::commit() or rollback() on a thread that has no manual
\* transaction fails with a usage error and changes nothing: the manual
\* transactions of the other threads (m_transactions and their Transaction
\* objects and handles), the registry and the stored content stay as they were.
C16_NoManualTransaction ==
    [][last'.op \in {"commit", "rollback"} /\ ~m_transactions[last'.t] =>
          /\ last'.res = "usage"
          /\ UNCHANGED <<committed, handles, objs, m_thread_txns, m_transactions>>]_vars

\* a commit() was refused on a thread without a manual transaction while
\* another thread had its manual transaction open and registered
C16_Witness ==
    /\ last.op = "commit"
    /\ last.res = "usage"
    /\ ~m_transactions[last.t]
    /\ \E u \in Threads \ {last.t} :
          /\ m_transactions[u]
          /\ Active(objs[<<u, "manual">>])
          /\ m_thread_txns[u] = objs[<<u, "manual">>].m_txn

\* the handles of the Transaction objects made by thread t
OwnHandles(t) == {HandleOf(<<t, kd>>) : kd \in Kinds}

\* C17: under every interleaving, the registry entry of a thread holds only a
\* handle of a transaction that thread began, a call changes no registry
\* entry but the calling thread's, and a table call made without an explicit
\* transaction that ran on the thread-bound transaction ran on a handle the
\* calling thread began (and owns in the engine while it is allocated).
C17_ThreadIsolation ==
    /\ [](\A t \in Threads : m_thread_txns[t] # NULL => m_thread_txns[t] \in OwnHandles(t))
    /\ [][/\ \A u \in Threads \ {last'.t} : m_thread_txns'[u] = m_thread_txns[u]
          /\ last'.op \in TableOps /\ last'.via = "thread" =>
                LET h == m_thread_txns[last'.t] IN
                /\ h \in OwnHandles(last'.t)
                /\ handles[h].st # "free" => handles[h].owner = last'.t]_vars

\* a table call of one thread ran on that thread's bound transaction while the
\* other thread had a different transaction bound
C17_Witness ==
    /\ last.op = "insert_or_assign"
    /\ last.via = "thread"
    /\ last.res = "none"
    /\ \E u \in Threads \ {last.t} :
          /\ m_thread_txns[u] # NULL
          /\ m_thread_txns[u] # m_thread_txns[last.t]
          /\ handles[m_thread_txns[u]].st = "active"

\* C18: while one thread holds an open manual WRITABLE transaction and another
\* thread is blocked in begin(WRITABLE), the first thread's commit() or
\* rollback() can still be carried out (which frees the writer slot, so that
\* the blocked begin() returns).
C18_NoDeadlock ==
    \A t \in Threads : \A u \in Threads \ {t} :
        (/\ pc[u] = "begin_wait"
         /\ m_transactions[t]
         /\ Active(objs[<<t, "manual">>])
         /\ objs[<<t, "manual">>].m_mode = "WRITABLE")
        => ENABLED (ConnCommit(t, FALSE) \/ ConnRollback(t, FALSE))

\* C12: reconcile is idempotent: a reconcile(C) that returns normally right
\* after a reconcile(C) with the same container returned normally leaves the
\* stored keys and values as the first call left them.
C12_ReconcileIdempotent ==
    [][(/\ last.op = "reconcile" /\ last.res = "none"
        /\ last'.op = "reconcile" /\ last'.res = "none"
        /\ last'.arg = last.arg /\ last'.tb = last.tb)
       => committed' = committed]_vars

\* C14: a table call in which an engine call returned a failure code (any
\* code but the not-found and key-exists results the operation treats as a
\* normal outcome) raises an error to the caller.
C14_EngineErrorsRaised ==
    (last.op \in TableOps /\ last.hit) => last.res # "none"

\* the handle a table call ran on when it did not open a scoped transaction
UsedHandle(c) == IF c.via = "explicit" THEN c.txn ELSE m_thread_txns[c.t]

\* C13: when a step of a reconcile fails (an engine call returns a failure
\* code), the call returns the error and nothing has been committed; if it ran
\* in a scoped auto-transaction that transaction is gone and none of its
\* writes is stored, and if it ran in an explicit or thread-bound transaction
\* that transaction is still open, registered and uncommitted, so that the
\* caller's rollback discards the partial writes.
C13_FailureNotCommitted ==
    [][last'.op = "reconcile" /\ last'.hit =>
          /\ last'.res # "none"
          /\ committed' = committed
          /\ last'.via = "scoped" =>
                /\ handles'[HandleOf(<<last'.t, "auto">>)] = FreeHandle
                /\ ~objs'[<<last'.t, "auto">>].alive
                /\ m_thread_txns'[last'.t] = NULL
          /\ last'.via \in {"explicit", "thread"} =>
                /\ handles'[UsedHandle(last')].st = handles[UsedHandle(last')].st
                /\ objs' = objs
                /\ m_thread_txns' = m_thread_txns
                /\ m_transactions' = m_transactions]_vars

\* the pairs of table content c in key order: what a complete cursor walk reads
PairsOf(c) == load_scan(c, <<>>, 1, <<>>, <<"none", 0>>).val

\* C11: a reconcile(C) called without an explicit transaction makes all its
\* upserts and deletions in one transaction.  While the call is in progress
\* the committed content is the content from before the call; a scoped call
\* that returns normally commits all its writes in its one commit step; a
\* READ_ONLY transaction reads the content that was committed when it began,
\* and keeps it.  So a retrieve_all on another thread returns the complete
\* content from before the reconcile (always, while it is in progress) or the
\* complete content after it, never a part of its writes.
C11_ReconcileAtomic ==
    /\ [](\A t \in Threads : stack[t].stage # "none" => committed = stack[t].pre)
    /\ [][/\ \A t \in Threads :
                (stack[t].stage = "commit" /\ stack'[t].stage = "none" /\ last'.res = "none")
                => committed' = handles[stack[t].h].view
          /\ \A h \in Handles :
                (handles'[h].st = "active" /\ handles'[h].mode = "READ_ONLY")
                => handles'[h].view = IF handles[h].st = "active" THEN handles[h].view ELSE committed
          /\ (last'.op = "retrieve_all" /\ last'.res = "none") =>
                /\ last'.via = "scoped" => last'.arg = PairsOf(committed[last'.tb])
                /\ last'.via = "thread" =>
                      last'.arg = PairsOf(handles[m_thread_txns[last'.t]].view[last'.tb])
                /\ \A t \in Threads \ {last'.t} :
                      (stack[t].stage # "none" /\ last'.via = "scoped")
                      => last'.arg = PairsOf(stack[t].pre[last'.tb])]_vars

\* a retrieve_all on thread 2 returned the complete earlier content while the
\* scoped reconcile of thread 1 had already written a pair and was about to
\* delete a stale key
C11_Witness ==
    /\ last.op = "retrieve_all"
    /\ last.res = "none"
    /\ last.via = "scoped"
    /\ stack[1].stage = "del"
    /\ stack[1].via = "scoped"
    /\ handles[stack[1].h].view # committed
    /\ last.arg = PairsOf(stack[1].pre["numbers"])
    /\ last.arg # PairsOf(handles[stack[1].h].view["numbers"])

\* C19: when disconnect() closes the environment, no transaction is left
\* behind: every engine handle has been released and no thread is registered
\* with a transaction any more (in the registry or in m_transactions); and no
\* thread ever uses a handle of an environment that has been closed.
C19_CloseAbortsAll ==
    /\ [][(m_env # NULL /\ m_env' = NULL) =>
             /\ \A h \in Handles : handles'[h].st = "free"
             /\ \A t \in Threads : m_thread_txns'[t] = NULL /\ ~m_transactions'[t]]_vars
    /\ [](\A t \in Threads : pc[t] # "undefined")

\* C20: connect() or connect(config) on a Connection whose environment is open
\* returns normally and changes nothing: m_env keeps its handle, the stored
\* configuration is not replaced, no transaction is touched.
C20_ConnectIdempotent ==
    [][(last'.op = "connect" /\ m_env # NULL) =>
          /\ last'.res = "none"
          /\ UNCHANGED <<m_env, m_config, committed, handles, objs, m_thread_txns, m_transactions>>]_vars

\* connect(config) with another configuration returned on an open Connection
\* that holds an open manual transaction
C20_Witness ==
    /\ last.op = "connect"
    /\ last.was = "open"
    /\ last.val \in Configs
    /\ last.val # m_config
    /\ m_env # NULL
    /\ \E t \in Threads : m_transactions[t] /\ Active(objs[<<t, "manual">>])

\* the content of table tb that a call of thread t made without a transaction
\* argument works on: the view of the thread-bound transaction, or the
\* committed content (scoped transaction)
Seen(R, H, D, t, tb) == IF R[t] # NULL THEN H[R[t]].view[tb] ELSE D[tb]

\* C21: an insert(k, v) in which no engine call fails returns true and stores
\* v when k is absent; when k is present it raises no error, returns false and
\* leaves the value of k and every other entry as they were.  Other tables
\* are never changed.
C21_InsertIfAbsent ==
    [][(last'.op = "insert" /\ ~last'.hit) =>
          LET t == last'.t
              tb == last'.tb
              u == serialize_key(last'.k)
              pre == Seen(m_thread_txns, handles, committed, t, tb)
              post == Seen(m_thread_txns', handles', committed', t, tb)
          IN /\ last'.res = "none"
             /\ IF Has(pre, u)
                THEN last'.val = "false" /\ post = pre
                ELSE last'.val = "true" /\ post = pre \cup {<<u, last'.arg[1][2]>>}
             /\ \A ot \in Tables \ {tb} :
                   Seen(m_thread_txns', handles', committed', t, ot)
                   = Seen(m_thread_txns, handles, committed, t, ot)]_vars

\* an insert of another value for a stored key returned false
C21_Witness ==
    /\ last.op = "insert"
    /\ last.res = "none"
    /\ last.val = "false"
    /\ Has(committed[last.tb], serialize_key(last.k))
    /\ Get(committed[last.tb], serialize_key(last.k)) # last.arg[1][2]
    /\ \E p \in committed[last.tb] : p[1] # serialize_key(last.k)

\* C22: a lookup in which no engine call fails leaves the committed content
\* and the content the caller's transaction works on unchanged; for a key that
\* is not stored, at raises the out-of-range error and find returns absence
\* without raising; for a stored key both return its value.
C22_AtRaisesFindReports ==
    [][(last'.op \in {"at", "find"} /\ ~last'.hit) =>
          LET t == last'.t
              u == serialize_key(last'.k)
              pre == Seen(m_thread_txns, handles, committed, t, last'.tb)
          IN /\ committed' = committed
             /\ \A tb \in Tables : Seen(m_thread_txns', handles', committed', t, tb)
                                    = Seen(m_thread_txns, handles, committed, t, tb)
             /\ IF Has(pre, u)
                THEN last'.res = "none" /\ last'.val = Get(pre, u)
                ELSE /\ last'.val = "absent"
                     /\ last'.op = "at" => last'.res = "out_of_range"
                     /\ last'.op = "find" => last'.res = "none"]_vars

\* at raised out-of-range for a key missing from a table that holds other keys
C22_Witness ==
    /\ last.op = "at" /\ last.res = "out_of_range" /\ ~last.hit
    /\ ~Has(committed[last.tb], serialize_key(last.k))
    /\ committed[last.tb] # EmptyTable

\* C23: a load into an empty sequence that returns normally returns every
\* entry of the content its transaction reads exactly once, in ascending order
\* of the engine's key order.
C23_LoadOrdered ==
    [][(last'.op = "load" /\ last'.res = "none" /\ last'.arg[1] = <<>>) =>
          LET R == last'.arg[2]
              c == Seen(m_thread_txns, handles, committed, last'.t, last'.tb)
          IN /\ Len(R) = Cardinality(c)
             /\ {<<serialize_key(R[i][1]), R[i][2]>> : i \in 1..Len(R)} = c
             /\ \A i, j \in 1..Len(R) :
                   i < j => KeyLess(serialize_key(R[i][1]), serialize_key(R[j][1]))]_vars

\* C24: for every value type and every value v, deserialize_value of the bytes
\* serialize_value wrote for v raises no error and returns v (for a set: the
\* same set), empty strings and empty containers included.
C24_RoundTrip ==
    (last.op = "loaded" /\ last.via = "serialize_value") =>
        (last.res = "none" /\ last.arg[3] = last.arg[1])

\* a container with an empty string, a string with a zero char and a string
\* with a negative char came back
C24_Witness ==
    /\ last.op = "loaded" /\ last.via = "serialize_value" /\ last.mode = "vector_string"
    /\ last.res = "none"
    /\ last.arg[1] = <<<<>>, <<0, -1>>>>
    /\ last.arg[3] = last.arg[1]

\* the buffer from offset ptr on is a sequence of complete length-prefixed
\* strings: it is empty, or a 4-byte length that fits in the rest is followed
\* by such a sequence
RECURSIVE Complete(_)
Complete(b) ==
    \/ b = <<>>
    \/ /\ Len(b) >= 4
       /\ le_value(SubSeq(b, 1, 4)) <= Len(b) - 4
       /\ Complete(SubSeq(b, 5 + le_value(SubSeq(b, 1, 4)), Len(b)))

\* the strings of a complete buffer, first to last
RECURSIVE Elements(_)
Elements(b) ==
    IF b = <<>> THEN <<>>
    ELSE <<chars_of(SubSeq(b, 5, 4 + le_value(SubSeq(b, 1, 4))))>>
         \o Elements(SubSeq(b, 5 + le_value(SubSeq(b, 1, 4)), Len(b)))

\* C27: deserialize_value of a container of strings (sequence or set) raises
\* the data-format error for every buffer in which a length passes the end of
\* the buffer or bytes remain after the last complete element; it returns a
\* container only for a complete buffer, and then all of its strings.
C27_CorruptRejected ==
    (last.op = "loaded" /\ last.mode \in {"vector_string", "set_string"}) =>
        IF Complete(last.arg[2])
        THEN /\ last.res = "none"
             /\ last.mode = "vector_string" => last.arg[3] = Elements(last.arg[2])
             /\ last.mode = "set_string" => last.arg[3] = SeqRange(Elements(last.arg[2]))
        ELSE last.res = "format"

\* a buffer with one complete element and a second length that passes the end
\* was rejected
C27_Witness ==
    /\ last.op = "loaded" /\ last.via = "database" /\ last.res = "format"
    /\ Len(last.arg[2]) = MaxBuf
    /\ SubSeq(last.arg[2], 1, 4) = <<0, 0, 0, 0>>
    /\ le_value(SubSeq(last.arg[2], 5, 8)) > 0

\* IEEE754 on bit patterns: the magnitude bits, not-a-number (above the
\* pattern of infinity), and a < b
Magnitude(u) == [u EXCEPT ![Len(u)] = @ % 128]
Infinity(u) == IF Len(u) = 4 THEN <<0, 0, 128, 127>> ELSE <<0, 0, 0, 0, 0, 0, 240, 127>>
IsNaN(u) == KeyLess(Infinity(u), Magnitude(u))
IsZero(u) == \A i \in 1..Len(u) : Magnitude(u)[i] = 0
FloatLess(a, b) ==
    IF a[Len(a)] >= 128
    THEN IF b[Len(b)] >= 128 THEN KeyLess(Magnitude(b), Magnitude(a))
         ELSE ~(IsZero(a) /\ IsZero(b))
    ELSE b[Len(b)] < 128 /\ KeyLess(Magnitude(a), Magnitude(b))

C26_IntKeyOrder ==
    (last.op = "walked" /\ last.mode \in IntKeyTypes /\ last.arg[1] < last.arg[2])
    => last.arg[5] = <<last.arg[1], last.arg[2]>>

\* C29: constructing a table on a thread whose manual transaction is open
\* succeeds and leaves that transaction open and registered for the thread.
C29_CtorInsideManualTxn ==
    (last.op = "table_ctor" /\ last.was = "active") =>
        /\ last.res = "none"
        /\ Active(objs[<<last.t, "manual">>])
        /\ m_thread_txns[last.t] = objs[<<last.t, "manual">>].m_txn

\* C28: the environment is opened at the path the policy gives: an absolute
\* pathname as given; a relative pathname that starts with ./ or ../ from the
\* working directory whatever relative_to_exe is; any other relative pathname
\* from the executable's directory with relative_to_exe and from the working
\* directory without.
C28_PathPolicy ==
    last.op = "opened" =>
        last.arg[4] = expected_path_from_policy(last.arg[1], last.arg[2], ExeDir, last.arg[3])

\* C30: with type-tag checking enabled, get<T> of a value stored as another
\* type U raises std::bad_cast, whatever the encoded sizes.
C30_TypeTagChecked ==
    (last.op = "got" /\ last.hit /\ last.mode # last.arg[1]) => last.res = "bad_cast"

\* C31: destroying a Transaction that commit() or rollback() has already
\* finalized leaves the registry as it is: the entry of a transaction begun
\* on the thread since then stays, and that transaction stays open.
C31_DestroyFinalized ==
    [][(/\ last'.op = "txn_destroy"
        /\ last'.was = "finalized"
        /\ m_thread_txns[last'.t] # NULL
        /\ m_thread_txns[last'.t] # last'.txn)
       => (/\ m_thread_txns'[last'.t] = m_thread_txns[last'.t]
           /\ handles'[m_thread_txns[last'.t]] = handles[m_thread_txns[last'.t]])]_vars

\* C32: commit() or rollback() of a READ_ONLY Transaction keeps its engine
\* handle (reset), and a later begin() on the object renews that handle and
\* registers it for the thread; commit() or rollback() of a WRITABLE
\* Transaction releases the handle, and a later begin() opens one anew.
C32_ReadOnlyReuse ==
    [][LET o == <<last'.t, "raii">>
           h == last'.txn
       IN /\ (/\ last'.op \in {"txn_commit", "txn_rollback"}
              /\ last'.res = "none") =>
                 IF last'.mode = "READ_ONLY"
                 THEN objs'[o].m_txn = h /\ handles'[h].st = "reset"
                 ELSE objs'[o].m_txn = NULL /\ handles'[h].st = "free"
          /\ (/\ last'.op = "txn_begin"
              /\ last'.was = "finalized"
              /\ last'.res = "none") =>
                 IF last'.mode = "READ_ONLY"
                 THEN h # NULL =>
                         /\ handles[h].st = "reset"
                         /\ objs'[o].m_txn = h
                         /\ handles'[h] = [handles[h] EXCEPT !.st = "active", !.view = committed]
                         /\ m_thread_txns'[last'.t] = h
                 ELSE /\ h = NULL
                      /\ objs'[o].m_txn # NULL
                      /\ handles[objs'[o].m_txn].st = "free"
                      /\ handles'[objs'[o].m_txn].st = "active"
                      /\ handles'[objs'[o].m_txn].mode = "WRITABLE"
                      /\ m_thread_txns'[last'.t] = objs'[o].m_txn]_vars

\* a READ_ONLY Transaction that was committed or rolled back has been begun
\* again on the handle it kept
C32_Witness ==
    /\ last.op = "txn_begin"
    /\ last.was = "finalized"
    /\ last.mode = "READ_ONLY"
    /\ last.res = "none"
    /\ last.txn # NULL
    /\ objs[<<last.t, "raii">>].m_txn = last.txn
    /\ handles[last.txn].st = "active"
    /\ m_thread_txns[last.t] = last.txn

\* C33: a table call that opens its own scoped transaction commits what the
\* operation did when the operation returns normally and commits nothing when
\* it raises; either way the thread has no registry entry and the scoped
\* transaction is gone from the engine when the call returns.
C33_ScopedCommitOrRollback ==
    [][last'.via = "scoped" =>
         /\ m_thread_txns'[last'.t] = NULL
         /\ ~objs'[<<last'.t, "auto">>].alive
         /\ handles'[HandleOf(<<last'.t, "auto">>)].st = "free"
         /\ last'.res # "none" => committed' = committed
         /\ (last'.res = "none" /\ ~last'.hit) =>
               committed' = [committed EXCEPT ![last'.tb] =
                                CASE last'.op = "insert_or_assign" ->
                                        Put(@, serialize_key(last'.k), last'.val)
                                  [] last'.op = "reconcile" -> TableOf(last'.arg)
                                  [] OTHER -> @]]_vars

\* a scoped reconcile of two pairs has raised an engine error, and the key of
\* its first pair is not in the table
C33_Witness ==
    /\ last.op = "reconcile"
    /\ last.via = "scoped"
    /\ last.res = "engine"
    /\ Len(last.arg) = 2
    /\ ~Has(committed["numbers"], serialize_key(last.arg[1][1]))
    /\ m_thread_txns[last.t] = NULL

\* C34: for every key type, the key that load, retrieve_all, keys and
\* reconcile decode from a stored key is the key that was inserted.
C34_KeyRoundTrip ==
    last.op = "listed" => (last.res = "none" /\ last.arg[6] = last.arg[1])

\* C35: the directory connect() creates is the parent of the path the
\* environment is then opened at, for every form of pathname and either
\* setting of relative_to_exe.
C35_CreatedIsParentOfOpened ==
    last.op = "opened" => last.arg[5] = SubSeq(last.arg[4], 1, Len(last.arg[4]) - 1)

C37_ReadKeepsExisting ==
    [][last'.op = "read" =>
         /\ Has(committed[last'.tb], serialize_key(last'.k)) => committed' = committed
         /\ (last'.was = "found" /\ last'.res = "none") =>
               last'.val = Get(committed[last'.tb], serialize_key(last'.k))]_vars

\* a write call made without a transaction argument by a thread whose
\* registered transaction is an open READ_ONLY one
WriteInReadOnly ==
    /\ last'.op \in {"insert_or_assign", "insert", "erase", "reconcile"}
    /\ last'.txn = NULL
    /\ m_thread_txns[last'.t] # NULL
    /\ handles[m_thread_txns[last'.t]].st = "active"
    /\ handles[m_thread_txns[last'.t]].mode = "READ_ONLY"

\* the call raised, and the table, the engine's transactions, the Transaction
\* objects and the registry are as before
RaisedAndUntouched ==
    /\ last'.res # "none"
    /\ last'.via = "thread"
    /\ committed' = committed
    /\ handles' = handles
    /\ objs' = objs
    /\ m_thread_txns' = m_thread_txns
    /\ m_transactions' = m_transactions

\* C38 as stated: every write call made without an explicit transaction on a
\* thread whose registered transaction is READ_ONLY raises an error, changes
\* nothing in the table and leaves that transaction open and registered.
C38_WriteInReadOnly ==
    [][WriteInReadOnly => RaisedAndUntouched]_vars

\* C38, amended: the same for every such call that has something to write;
\* a reconcile with an empty container on a table that is empty in the
\* snapshot of the transaction makes no engine write and returns normally,
\* with the table, the transaction and the registry as before.
C38_WriteInReadOnlyUnlessNothing ==
    [][WriteInReadOnly =>
         IF /\ last'.op = "reconcile"
            /\ last'.arg = <<>>
            /\ handles[m_thread_txns[last'.t]].view[last'.tb] = EmptyTable
         THEN /\ last'.res = "none"
              /\ committed' = committed
              /\ handles' = handles
              /\ objs' = objs
              /\ m_thread_txns' = m_thread_txns
         ELSE RaisedAndUntouched]_vars

\* an insert_or_assign was refused in the open READ_ONLY manual transaction of
\* its thread, which is still registered
C38_Witness ==
    /\ last.op = "insert_or_assign"
    /\ last.via = "thread"
    /\ last.res = "engine"
    /\ m_transactions[last.t]
    /\ m_thread_txns[last.t] = objs[<<last.t, "manual">>].m_txn
    /\ handles[m_thread_txns[last.t]].st = "active"
    /\ handles[m_thread_txns[last.t]].mode = "READ_ONLY"

\* C39: the cursor a reconcile opened is closed when the call returns or
\* raises, also when a delete through the cursor fails.
C39_CursorClosed ==
    last.op = "reconcile" => last.was # "open"

====
